---- MODULE Spec2Model ----
(***************************************************************************)
(* Model of the experiment-analysis router (src/api/routers/experiments.py)*)
(*                                                                         *)
(* Python floats are modelled as fixed-point integers: a real x is the     *)
(* integer x * FP.  Percentages (the two uplift figures) are carried in    *)
(* units of 1/PCT percent.  Every product and quotient goes through        *)
(* MulDiv, which never forms an intermediate above 2^31-1.  Rounding is    *)
(* towards zero on the magnitude, so every operation is sign-symmetric as  *)
(* IEEE-754 round-to-nearest is.                                           *)
(***************************************************************************)
EXTENDS Integers, Sequences, FiniteSets, TLC

VARIABLES
    pc,                 \* where the /analyze handler stands
    req,                \* the ExperimentAnalyzeRequest being served
    locals,             \* the handler's unrounded local values
    frequentist,        \* the FrequentistResult, once built
    bayesian,           \* the BayesianResult, once built
    sample_size,        \* sample_size_needed, once the planner has run
    recommendation,     \* the decision, once made
    response,           \* what the caller receives
    fin,                \* arguments of a helper called on its own
    fout,               \* what that helper returned
    numpy,              \* numpy.random: the bit stream and the global generator
    workers,            \* the /analyze calls in flight at the same time
    timeline            \* the loop of paid_unlock_timeline: its request and locals

vars == <<pc, req, locals, frequentist, bayesian, sample_size,
          recommendation, response, fin, fout, numpy, workers, timeline>>

handler_vars == <<pc, req, locals, frequentist, bayesian, sample_size,
                  recommendation, response>>

\* ------------------------------------------------------------------------
\* Bounds of the model
\* ------------------------------------------------------------------------

\* Largest visitor count of the exhaustively enumerated arms.
MaxVisitors == 3

\* ------------------------------------------------------------------------
\* Fixed-point arithmetic
\* ------------------------------------------------------------------------

\* One unit of a dimensionless float is 1/FP.
FP == 10000 * 1000

\* One unit of a percentage is 1/PCT percent.
PCT == 100 * 100

Abs(x) == IF x < 0 THEN -x ELSE x

Sgn(x) == IF x < 0 THEN -1 ELSE IF x > 0 THEN 1 ELSE 0

Min(a, b) == IF a <= b THEN a ELSE b

Max(a, b) == IF a >= b THEN a ELSE b

\* The radix of the long multiplication by c: the largest of 1024, 64, 8
\* and 2 for which 2 * radix * c stays below 2^31 (c is below 2^29).
Radix(c) ==
    IF c <= 1048576 THEN 1024
    ELSE IF c <= 16777216 THEN 64
    ELSE IF c <= 134217728 THEN 8
    ELSE 2

\* <<q, r>> with (aq*c + ar)*b = q*c + r and 0 <= r < c: long
\* multiplication on the digits of b in radix R, most significant first.
RECURSIVE LongMul(_, _, _, _, _)
LongMul(aq, ar, b, c, R) ==
    IF b = 0 THEN <<0, 0>>
    ELSE LET h == LongMul(aq, ar, b \div R, c, R)
             d == b % R
             t == R * h[2] + d * ar
         IN  <<R * h[1] + d * aq + t \div c, t % c>>

\* <<q, r>> with a*b = q*c + r and 0 <= r < c, for a, b >= 0 and c > 0,
\* without an intermediate above 2^31-1.
MulDivMod(a, b, c) == LongMul(a \div c, a % c, b, c, Radix(c))

\* a*b/c truncated towards zero, for any signs of a and b and c > 0.
MulDiv(a, b, c) ==
    IF Abs(a) < 46000 /\ Abs(b) < 46000
    THEN Sgn(a) * Sgn(b) * ((Abs(a) * Abs(b)) \div c)
    ELSE Sgn(a) * Sgn(b)
         * MulDivMod(Max(Abs(a), Abs(b)), Min(Abs(a), Abs(b)), c)[1]

\* Float product and quotient.
FMul(a, b) == MulDiv(a, b, FP)

FDiv(a, b) == Sgn(b) * MulDiv(a, FP, Abs(b))

\* int / int as a float (Python true division).
IntDiv(a, b) == Sgn(b) * MulDiv(a, FP, Abs(b))

\* Newton's iteration for the integer square root of x * FP, from a
\* start s at or above the root: stops at the largest s with s*s <= x*FP.
RECURSIVE SqrtNewton(_, _)
SqrtNewton(x, s) ==
    LET t == (s + MulDivMod(x, FP, s)[1]) \div 2
    IN  IF t >= s THEN s ELSE SqrtNewton(x, t)

\* math.sqrt on a non-negative float.
Sqrt(x) == IF x <= 0 THEN 0 ELSE SqrtNewton(x, Max(x, FP))

\* round(x, ndigits): to the nearest multiple of unit, ties to even.
PyRound(x, unit) ==
    LET m    == Abs(x)
        q    == m \div unit
        r    == m % unit
        up   == 2 * r > unit \/ (2 * r = unit /\ q % 2 = 1)
    IN  Sgn(x) * unit * (IF up THEN q + 1 ELSE q)

\* ------------------------------------------------------------------------
\* Distribution math
\* ------------------------------------------------------------------------

\* Spacing of the knots of PhiTable, as a float (0.05).
PhiStep == FP \div 20

\* Phi(k * 0.05) * FP for k = 0..120, i.e. 0.5 * erfc(-x / sqrt(2)) on [0, 6].
PhiTable ==
    << 5000000, 5199388, 5398278, 5596177, 5792597, 5987063, 6179114, 6368307,
       6554217, 6736448, 6914625, 7088403, 7257469, 7421539, 7580363, 7733726,
       7881446, 8023375, 8159399, 8289439, 8413447, 8531409, 8643339, 8749281,
       8849303, 8943502, 9031995, 9114920, 9192433, 9264707, 9331928, 9394292,
       9452007, 9505285, 9554345, 9599408, 9640697, 9678432, 9712834, 9744119,
       9772499, 9798178, 9821356, 9842224, 9860966, 9877755, 9892759, 9906133,
       9918025, 9928572, 9937903, 9946139, 9953388, 9959754, 9965330, 9970202,
       9974449, 9978140, 9981342, 9984111, 9986501, 9988558, 9990324, 9991836,
       9993129, 9994230, 9995166, 9995959, 9996631, 9997197, 9997674, 9998074,
       9998409, 9998689, 9998922, 9999116, 9999277, 9999409, 9999519, 9999609,
       9999683, 9999744, 9999793, 9999834, 9999867, 9999893, 9999915, 9999932,
       9999946, 9999957, 9999966, 9999973, 9999979, 9999983, 9999987, 9999990,
       9999992, 9999994, 9999995, 9999996, 9999997, 9999998, 9999998, 9999999,
       9999999, 9999999, 9999999, 10000000, 10000000, 10000000, 10000000, 10000000,
       10000000, 10000000, 10000000, 10000000, 10000000, 10000000, 10000000, 10000000,
       10000000 >>

\* Phi(x) for x >= 0: the tabulated value at a knot, linear in between,
\* 1.0 beyond the table.
PhiNonNeg(x) ==
    LET k == x \div PhiStep
        f == x % PhiStep
    IN  IF k + 1 >= Len(PhiTable) THEN FP
        ELSE PhiTable[k + 1]
             + MulDiv(PhiTable[k + 2] - PhiTable[k + 1], f, PhiStep)

\* _norm_cdf(x) = 0.5 * math.erfc(-x / math.sqrt(2.0)).
_norm_cdf(x) == IF x >= 0 THEN PhiNonNeg(x) ELSE FP - PhiNonNeg(-x)

\* ------------------------------------------------------------------------
\* Frequentist test engine
\* ------------------------------------------------------------------------

\* The integers from which float(n) raises OverflowError.  A Python float
\* holds magnitudes below 2^1024; the model's integers end at 2^31, and
\* 2^20 stands for that limit, above every other visitor count used.
FloatMaxInt == 1024 * 1024

\* 1.0 / n converts the int n to a float first.
FloatOverflow(n) == n >= FloatMaxInt

\* What a helper hands back: a value, or an exception that propagates.
ZOk(z, p) == [raised |-> FALSE, z |-> z, p |-> p]

ZRaised == [raised |-> TRUE, z |-> 0, p |-> 0]

\* z_test_rates with the one-tailed p-value 1 - Phi(z).
z_test_one_tailed(c_ctrl, n_ctrl, c_var, n_var) ==
    IF n_ctrl = 0 \/ n_var = 0 \/ n_ctrl + n_var = 0 THEN ZRaised
    ELSE
    LET p_ctrl == IntDiv(c_ctrl, n_ctrl)
        p_var  == IntDiv(c_var, n_var)
        p_pool == IntDiv(c_ctrl + c_var, n_ctrl + n_var)
    IN  IF p_pool <= 0 \/ p_pool >= FP THEN ZOk(0, FP)
        ELSE IF FloatOverflow(n_ctrl) \/ FloatOverflow(n_var) THEN ZRaised
        ELSE
        LET se == Sqrt(FMul(FMul(p_pool, FP - p_pool),
                            IntDiv(1, n_ctrl) + IntDiv(1, n_var)))
        IN  IF se = 0 THEN ZOk(0, FP)
            ELSE
            LET z       == FDiv(p_var - p_ctrl, se)
                p_value == FP - _norm_cdf(z)
            IN  ZOk(z, Max(0, Min(FP, p_value)))

\* z_test_rates with the difference taken as control minus variant.
z_test_reversed_difference(c_ctrl, n_ctrl, c_var, n_var) ==
    IF n_ctrl = 0 \/ n_var = 0 \/ n_ctrl + n_var = 0 THEN ZRaised
    ELSE
    LET p_ctrl == IntDiv(c_ctrl, n_ctrl)
        p_var  == IntDiv(c_var, n_var)
        p_pool == IntDiv(c_ctrl + c_var, n_ctrl + n_var)
    IN  IF p_pool <= 0 \/ p_pool >= FP THEN ZOk(0, FP)
        ELSE IF FloatOverflow(n_ctrl) \/ FloatOverflow(n_var) THEN ZRaised
        ELSE
        LET se == Sqrt(FMul(FMul(p_pool, FP - p_pool),
                            IntDiv(1, n_ctrl) + IntDiv(1, n_var)))
        IN  IF se = 0 THEN ZOk(0, FP)
            ELSE
            LET z       == FDiv(p_ctrl - p_var, se)
                p_value == 2 * (FP - _norm_cdf(Abs(z)))
            IN  ZOk(z, Max(0, Min(FP, p_value)))

\* z_test_rates with the signed z in the two-tailed value and no clamp.
z_test_signed_unclamped(c_ctrl, n_ctrl, c_var, n_var) ==
    IF n_ctrl = 0 \/ n_var = 0 \/ n_ctrl + n_var = 0 THEN ZRaised
    ELSE
    LET p_ctrl == IntDiv(c_ctrl, n_ctrl)
        p_var  == IntDiv(c_var, n_var)
        p_pool == IntDiv(c_ctrl + c_var, n_ctrl + n_var)
    IN  IF p_pool <= 0 \/ p_pool >= FP THEN ZOk(0, FP)
        ELSE IF FloatOverflow(n_ctrl) \/ FloatOverflow(n_var) THEN ZRaised
        ELSE
        LET se == Sqrt(FMul(FMul(p_pool, FP - p_pool),
                            IntDiv(1, n_ctrl) + IntDiv(1, n_var)))
        IN  IF se = 0 THEN ZOk(0, FP)
            ELSE
            LET z       == FDiv(p_var - p_ctrl, se)
                p_value == 2 * (FP - _norm_cdf(z))
            IN  ZOk(z, p_value)

\* Lines 162-177 of _z_test_proportions: everything after the visitor-count
\* guard.  A zero visitor count here is a ZeroDivisionError; a visitor count
\* beyond the floats in 1.0 / n (line 169) is an OverflowError.
z_test_rates(c_ctrl, n_ctrl, c_var, n_var) ==
    IF n_ctrl = 0 \/ n_var = 0 \/ n_ctrl + n_var = 0 THEN ZRaised
    ELSE
    LET p_ctrl == IntDiv(c_ctrl, n_ctrl)
        p_var  == IntDiv(c_var, n_var)
        p_pool == IntDiv(c_ctrl + c_var, n_ctrl + n_var)
    IN  IF p_pool <= 0 \/ p_pool >= FP THEN ZOk(0, FP)
        ELSE IF FloatOverflow(n_ctrl) \/ FloatOverflow(n_var) THEN ZRaised
        ELSE
        LET se == Sqrt(FMul(FMul(p_pool, FP - p_pool),
                            IntDiv(1, n_ctrl) + IntDiv(1, n_var)))
        IN  IF se = 0 THEN ZOk(0, FP)
            ELSE
            LET z       == FDiv(p_var - p_ctrl, se)
                p_value == 2 * (FP - _norm_cdf(Abs(z)))
            IN  ZOk(z, Max(0, Min(FP, p_value)))

\* _z_test_proportions without its visitor-count guard.
z_test_no_visitor_guard(c_ctrl, n_ctrl, c_var, n_var) ==
    z_test_rates(c_ctrl, n_ctrl, c_var, n_var)

\* _z_test_proportions(c_ctrl, n_ctrl, c_var, n_var) -> (z_score, p_value).
_z_test_proportions(c_ctrl, n_ctrl, c_var, n_var) ==
    IF n_ctrl = 0 \/ n_var = 0 THEN ZOk(0, FP)
    ELSE z_test_rates(c_ctrl, n_ctrl, c_var, n_var)

\* ------------------------------------------------------------------------
\* Sample-size planner
\* ------------------------------------------------------------------------

\* float("inf"): larger than every finite float of the model.
PosInf == 2147483647

NegInf == -PosInf

IsInf(x) == x = PosInf \/ x = NegInf

\* ln 2 as a float.
Ln2 == 6931472

\* m in [1, 2) and k with q = m / 2^k, for a float 0 < q < 1.
RECURSIVE LnReduce(_, _)
LnReduce(m, k) == IF m >= FP THEN <<m, k>> ELSE LnReduce(2 * m, k + 1)

\* y + y^3/3 + ... + y^15/15 (term is the current odd power of y).
RECURSIVE AtanhSeries(_, _, _)
AtanhSeries(y2, term, n) ==
    IF n > 15 THEN 0
    ELSE term \div n + AtanhSeries(y2, FMul(term, y2), n + 2)

\* math.log(q) for a float 0 < q < 1: ln q = 2 atanh((m-1)/(m+1)) - k ln 2.
Ln(q) ==
    LET mk == LnReduce(q, 0)
        y  == FDiv(mk[1] - FP, mk[1] + FP)
    IN  2 * AtanhSeries(FMul(y, y), y, 1) - mk[2] * Ln2

\* The coefficient lists c and d of _norm_ppf.
ppf_c == <<25155170, 8028530, 103280>>

ppf_d == <<14327880, 1892690, 13080>>

\* _norm_ppf answering the ends of its approximation's range, -3.719 and
\* 3.719, outside (0,1).
norm_ppf_saturating(p) ==
    IF p <= 0 THEN -3719 * (FP \div 1000)
    ELSE IF p >= FP THEN 3719 * (FP \div 1000)
    ELSE
    LET q   == IF 2 * p < FP THEN p ELSE FP - p
        t   == Sqrt(-2 * Ln(q))
        num == ppf_c[1] + FMul(t, ppf_c[2] + FMul(t, ppf_c[3]))
        den == FP + FMul(t, ppf_d[1] + FMul(t, ppf_d[2] + FMul(t, ppf_d[3])))
        x   == t - FDiv(num, den)
    IN  IF 2 * p >= FP THEN x ELSE -x

\* _norm_ppf(p): inverse standard normal CDF, rational approximation.
_norm_ppf(p) ==
    IF p <= 0 THEN NegInf
    ELSE IF p >= FP THEN PosInf
    ELSE
    LET q   == IF 2 * p < FP THEN p ELSE FP - p
        t   == Sqrt(-2 * Ln(q))
        num == ppf_c[1] + FMul(t, ppf_c[2] + FMul(t, ppf_c[3]))
        den == FP + FMul(t, ppf_d[1] + FMul(t, ppf_d[2] + FMul(t, ppf_d[3])))
        x   == t - FDiv(num, den)
    IN  IF 2 * p >= FP THEN x ELSE -x

\* What the planner hands back: an int, or an exception that propagates.
NOk(n) == [raised |-> FALSE, n |-> n]

NRaised == [raised |-> TRUE, n |-> 0]

\* math.ceil(a / b) for floats a >= 0, b > 0.
CeilDiv(a, b) ==
    LET qr == MulDivMod(a, 1, b)
    IN  qr[1] + (IF qr[2] > 0 THEN 1 ELSE 0)

\* p2 = min(baseline_rate * (1.0 + min_detectable_effect), 0.9999).
planner_p2(baseline_rate, min_detectable_effect) ==
    Min(FMul(baseline_rate, FP + min_detectable_effect), FP - FP \div 10000)

\* Lines 257-258: the arguments of the two calls of _norm_ppf,
\* 1.0 - alpha / 2.0 and power.
planner_ppf_args(alpha, power) == <<FP - alpha \div 2, power>>

\* numerator = (z_alpha + z_beta) ** 2 * (p1 * (1 - p1) + p2 * (1 - p2)).
planner_numerator(baseline_rate, min_detectable_effect, alpha, power) ==
    LET p1      == baseline_rate
        p2      == planner_p2(baseline_rate, min_detectable_effect)
        z_alpha == _norm_ppf(planner_ppf_args(alpha, power)[1])
        z_beta  == _norm_ppf(planner_ppf_args(alpha, power)[2])
    IN  IF IsInf(z_alpha) \/ IsInf(z_beta) THEN PosInf
        ELSE FMul(FMul(z_alpha + z_beta, z_alpha + z_beta),
                  FMul(p1, FP - p1) + FMul(p2, FP - p2))

\* denominator = (p1 - p2) ** 2.
planner_denominator(baseline_rate, min_detectable_effect) ==
    LET p1 == baseline_rate
        p2 == planner_p2(baseline_rate, min_detectable_effect)
    IN  FMul(p1 - p2, p1 - p2)

\* math.ceil(numerator / denominator): a zero denominator is a
\* ZeroDivisionError, an infinite numerator an OverflowError.
planner_ceil(numerator, denominator) ==
    IF denominator = 0 \/ IsInf(numerator) THEN NRaised
    ELSE NOk(CeilDiv(numerator, denominator))

\* _calculate_sample_size without its zero-denominator guard.
sample_size_no_denominator_guard(baseline_rate, min_detectable_effect, alpha, power) ==
    IF baseline_rate <= 0 \/ baseline_rate >= FP THEN NOk(0)
    ELSE planner_ceil(
             planner_numerator(baseline_rate, min_detectable_effect, alpha, power),
             planner_denominator(baseline_rate, min_detectable_effect))

\* _calculate_sample_size(baseline_rate, min_detectable_effect, alpha, power).
_calculate_sample_size(baseline_rate, min_detectable_effect, alpha, power) ==
    IF baseline_rate <= 0 \/ baseline_rate >= FP THEN NOk(0)
    ELSE IF planner_denominator(baseline_rate, min_detectable_effect) = 0
         THEN NOk(0)
    ELSE planner_ceil(
             planner_numerator(baseline_rate, min_detectable_effect, alpha, power),
             planner_denominator(baseline_rate, min_detectable_effect))

\* ------------------------------------------------------------------------
\* Decision policy
\* ------------------------------------------------------------------------

\* The practical-significance threshold of _make_recommendation, 2.0 percent.
MinUpliftPct == 2 * PCT

\* The Bayesian certainty thresholds 0.10 and 0.90.
ProbLow == FP \div 10

ProbHigh == 9 * (FP \div 10)

\* _make_recommendation testing the Bayesian rule before the significance
\* rules.
recommendation_bayes_rule_first(is_significant, relative_uplift_pct, total_visitors, sample_size_needed, prob_b_beats_a) ==
    LET reached_sample == total_visitors >= sample_size_needed * 2
    IN  IF reached_sample
           /\ (prob_b_beats_a < ProbLow \/ prob_b_beats_a > ProbHigh)
        THEN "stop_test_no_winner"
        ELSE IF is_significant /\ Abs(relative_uplift_pct) >= MinUpliftPct
        THEN "declare_winner"
        ELSE IF is_significant /\ Abs(relative_uplift_pct) < MinUpliftPct
        THEN "stop_test_no_winner"
        ELSE "continue_test"

\* _make_recommendation with "> 2.0" for ">= 2.0" in the winner rule.
recommendation_strict_uplift(is_significant, relative_uplift_pct, total_visitors, sample_size_needed, prob_b_beats_a) ==
    LET reached_sample == total_visitors >= sample_size_needed * 2
    IN  IF is_significant /\ Abs(relative_uplift_pct) > MinUpliftPct
        THEN "declare_winner"
        ELSE IF is_significant /\ Abs(relative_uplift_pct) < MinUpliftPct
        THEN "stop_test_no_winner"
        ELSE IF reached_sample
                /\ (prob_b_beats_a < ProbLow \/ prob_b_beats_a > ProbHigh)
        THEN "stop_test_no_winner"
        ELSE "continue_test"

\* _make_recommendation with ">" for ">=" in reached_sample.
recommendation_strict_reach(is_significant, relative_uplift_pct, total_visitors, sample_size_needed, prob_b_beats_a) ==
    LET reached_sample == total_visitors > sample_size_needed * 2
    IN  IF is_significant /\ Abs(relative_uplift_pct) >= MinUpliftPct
        THEN "declare_winner"
        ELSE IF is_significant /\ Abs(relative_uplift_pct) < MinUpliftPct
        THEN "stop_test_no_winner"
        ELSE IF reached_sample
                /\ (prob_b_beats_a < ProbLow \/ prob_b_beats_a > ProbHigh)
        THEN "stop_test_no_winner"
        ELSE "continue_test"

\* _make_recommendation with "<=" and ">=" in the Bayesian rule.
recommendation_inclusive_prob(is_significant, relative_uplift_pct, total_visitors, sample_size_needed, prob_b_beats_a) ==
    LET reached_sample == total_visitors >= sample_size_needed * 2
    IN  IF is_significant /\ Abs(relative_uplift_pct) >= MinUpliftPct
        THEN "declare_winner"
        ELSE IF is_significant /\ Abs(relative_uplift_pct) < MinUpliftPct
        THEN "stop_test_no_winner"
        ELSE IF reached_sample
                /\ (prob_b_beats_a <= ProbLow \/ prob_b_beats_a >= ProbHigh)
        THEN "stop_test_no_winner"
        ELSE "continue_test"

\* _make_recommendation without the Bayesian rule.
recommendation_no_bayes_rule(is_significant, relative_uplift_pct, total_visitors, sample_size_needed, prob_b_beats_a) ==
    IF is_significant /\ Abs(relative_uplift_pct) >= MinUpliftPct
    THEN "declare_winner"
    ELSE IF is_significant /\ Abs(relative_uplift_pct) < MinUpliftPct
    THEN "stop_test_no_winner"
    ELSE "continue_test"

\* _make_recommendation(is_significant, relative_uplift_pct, total_visitors,
\*                      sample_size_needed, prob_b_beats_a).
_make_recommendation(is_significant, relative_uplift_pct, total_visitors, sample_size_needed, prob_b_beats_a) ==
    LET reached_sample == total_visitors >= sample_size_needed * 2
    IN  IF is_significant /\ Abs(relative_uplift_pct) >= MinUpliftPct
        THEN "declare_winner"
        ELSE IF is_significant /\ Abs(relative_uplift_pct) < MinUpliftPct
        THEN "stop_test_no_winner"
        ELSE IF reached_sample
                /\ (prob_b_beats_a < ProbLow \/ prob_b_beats_a > ProbHigh)
        THEN "stop_test_no_winner"
        ELSE "continue_test"

\* ------------------------------------------------------------------------
\* Bayesian posterior engine
\* ------------------------------------------------------------------------

\* Largest alpha_ctrl + alpha_var for which P(variant > control) is computed
\* exactly; above it the normal approximation of both posteriors is used.
MaxExactShape == 16

\* Largest error of the Monte Carlo mean of 100 000 draws (0.005, more than
\* three standard deviations of the estimate).
MCErr == FP \div 200

\* The sampling errors the model lets the seeded generator produce.
SamplingErrors == {-MCErr, 0, MCErr}

\* A Beta(a, b) variate with integer shapes is the a-th smallest of a+b-1
\* uniform draws.  Merging the m control draws with the n variant draws in
\* random order, P(variant > control) is the probability of meeting a_need
\* control points before b_need variant points; i and j count the points
\* met so far.
RECURSIVE MeetFirst(_, _, _, _, _, _)
MeetFirst(i, j, a_need, b_need, m, n) ==
    IF i = a_need THEN FP
    ELSE IF j = b_need THEN 0
    ELSE MulDiv(MeetFirst(i + 1, j, a_need, b_need, m, n), m - i, m + n - i - j)
         + MulDiv(MeetFirst(i, j + 1, a_need, b_need, m, n), n - j, m + n - i - j)

\* Mean and variance of Beta(a, b).
BetaMean(a, b) == IntDiv(a, a + b)

BetaVar(a, b) == FMul(BetaMean(a, b), FP - BetaMean(a, b)) \div (a + b + 1)

\* P(variant > control) with both posteriors replaced by normals.
NormalProb(alpha_ctrl, beta_ctrl, alpha_var, beta_var) ==
    LET sd == Sqrt(BetaVar(alpha_ctrl, beta_ctrl) + BetaVar(alpha_var, beta_var))
    IN  IF sd = 0 THEN FP \div 2
        ELSE _norm_cdf(FDiv(BetaMean(alpha_var, beta_var)
                            - BetaMean(alpha_ctrl, beta_ctrl), sd))

\* The probability that np.mean(samples_var > samples_ctrl) estimates.
PosteriorProb(c_ctrl, n_ctrl, c_var, n_var) ==
    LET alpha_ctrl == c_ctrl + 1
        beta_ctrl  == n_ctrl - c_ctrl + 1
        alpha_var  == c_var + 1
        beta_var   == n_var - c_var + 1
    IN  IF alpha_ctrl + alpha_var <= MaxExactShape
        THEN MeetFirst(0, 0, alpha_ctrl, alpha_var,
                       alpha_ctrl + beta_ctrl - 1, alpha_var + beta_var - 1)
        ELSE NormalProb(alpha_ctrl, beta_ctrl, alpha_var, beta_var)

\* _bayesian_analysis(c_ctrl, n_ctrl, c_var, n_var): prob_b_beats_a, the
\* Monte Carlo estimate with sampling error err, a mean of 0/1 values.
_bayesian_analysis(c_ctrl, n_ctrl, c_var, n_var, err) ==
    Max(0, Min(FP, PosteriorProb(c_ctrl, n_ctrl, c_var, n_var) + err))

\* ------------------------------------------------------------------------
\* The /analyze endpoint
\* ------------------------------------------------------------------------

\* An unset local or field, and a set one.
None == <<>>

Some(x) == <<x>>

\* No sampler state: the helpers that draw nothing are called without it.
NoSampler == numpy = None /\ workers = None

\* ------------------------------------------------------------------------
\* numpy.random as _bayesian_analysis uses it
\* ------------------------------------------------------------------------

\* Largest n_samples for which the draws are followed one by one.
MaxSamples == 2

\* Where a draw falls in its distribution: one standard deviation below the
\* mean or one above.
Levels == {-1, 1}

\* The blocks of a bit stream; one call of rng.beta consumes one block.
Blocks == 0..2

\* The outputs a bit generator can have: for each block, the level of each
\* draw made from it.  The output for seed 42 is one of them, fixed once
\* and for all.
Streams == [Blocks -> [1..MaxSamples -> Levels]]

\* A generator object: its name, the key of its stream and the number of
\* blocks drawn from it so far.
Generator(name, key) == [name |-> name, key |-> key, drawn |-> 0]

\* np.random.default_rng(seed): a new generator, local to the call.
default_rng(seed) == Generator("rng", seed)

\* The module-level generator behind np.random.beta, shared by every call.
GlobalGenerator == Generator("np.random", 0)

\* The block the next draw of generator g reads.
Block(g) == (g.key + g.drawn) % Cardinality(Blocks)

\* The generator after one call of beta.
Advance(g) == [g EXCEPT !.drawn = (@ + 1) % Cardinality(Blocks)]

BetaSd(a, b) == Sqrt(BetaVar(a, b))

\* The point of the support of Beta(a, b) at a level, inside [0, 1].
BetaPoint(a, b, level) ==
    Max(0, Min(FP, BetaMean(a, b) + level * BetaSd(a, b)))

\* g.beta(a, b, size=size): size draws from the block g stands at.
rng_beta(g, a, b, size, pcg64) ==
    [i \in 1..size |-> BetaPoint(a, b, pcg64[Block(g)][i])]

\* The draws through the module-level generator instead of the local one.
sampler_global(rng, global) == global

\* Lines 215-216: the generator the draws are made from, `rng`.
sampler(rng, global) == rng

RECURSIVE SeqSum(_)
SeqSum(xs) == IF xs = <<>> THEN 0 ELSE Head(xs) + SeqSum(Tail(xs))

\* np.mean of a non-empty array.
np_mean(xs) == IF SeqSum(xs) >= 0 THEN SeqSum(xs) \div Len(xs)
               ELSE -((-SeqSum(xs)) \div Len(xs))

\* samples_var > samples_ctrl, element by element, as 1.0 and 0.0.
np_greater(xs, ys) == [i \in 1..Len(xs) |-> IF xs[i] > ys[i] THEN FP ELSE 0]

\* np_maximum_diff without the maximum: the plain difference xs - ys.
np_plain_diff(xs, ys) == [i \in 1..Len(xs) |-> xs[i] - ys[i]]

\* np.maximum(xs - ys, 0.0).
np_maximum_diff(xs, ys) == [i \in 1..Len(xs) |-> Max(xs[i] - ys[i], 0)]

\* np.percentile(xs, q) with q in tenths of a percent: linear interpolation
\* between the two order statistics around (n - 1) * q.
np_percentile(xs, q) ==
    LET sorted == SortSeq(xs, LAMBDA x, y : x < y)
        pos    == (Len(xs) - 1) * q
        lo     == (pos \div 1000) + 1
        hi     == Min(lo + 1, Len(xs))
    IN  sorted[lo] + MulDiv(sorted[hi] - sorted[lo], pos % 1000, 1000)

\* Lines 209-228 of _bayesian_analysis, draw by draw (n_samples up to
\* MaxSamples): the two posteriors, the generator seeded with 42, the two
\* arrays of draws and the three estimates.  np is numpy.random's state;
\* global is the module-level generator as the call leaves it.
bayesian_draws(c_ctrl, n_ctrl, c_var, n_var, n_samples, np) ==
    LET alpha_ctrl   == c_ctrl + 1
        beta_ctrl    == n_ctrl - c_ctrl + 1
        alpha_var    == c_var + 1
        beta_var     == n_var - c_var + 1
        rng          == default_rng(42)
        g_ctrl       == sampler(rng, np.global)
        samples_ctrl == rng_beta(g_ctrl, alpha_ctrl, beta_ctrl, n_samples, np.pcg64)
        rng_1        == IF g_ctrl.name = rng.name THEN Advance(rng) ELSE rng
        global_1     == IF g_ctrl.name = rng.name THEN np.global
                        ELSE Advance(np.global)
        g_var        == sampler(rng_1, global_1)
        samples_var  == rng_beta(g_var, alpha_var, beta_var, n_samples, np.pcg64)
        global_2     == IF g_var.name = rng.name THEN global_1
                        ELSE Advance(global_1)
    IN  [prob_b_beats_a    |-> np_mean(np_greater(samples_var, samples_ctrl)),
         expected_loss     |-> np_mean(np_maximum_diff(samples_ctrl, samples_var)),
         credible_interval |-> <<np_percentile(samples_var, 25),
                                 np_percentile(samples_var, 975)>>,
         global            |-> global_2]

\* What the caller of _bayesian_analysis receives (line 228).
BayesReturn(b) ==
    [prob_b_beats_a    |-> b.prob_b_beats_a,
     expected_loss     |-> b.expected_loss,
     credible_interval |-> b.credible_interval]

\* Whether the draws of one block run below or above their distribution's
\* centre on the whole.
BlockDeviation(levels) == Sgn(SeqSum(levels))

\* The sampling error of np.mean(samples_var > samples_ctrl) at 100 000
\* draws: up when the variant's draws run higher than the control's.
SamplingError(dev_ctrl, dev_var) == Sgn(dev_var - dev_ctrl) * MCErr

\* Arms <<conversions, visitors>> enumerated exhaustively: every visitor
\* count the request model accepts (ge=1) up to the bound, with every
\* conversion count (ge=0) up to one more than the visitors.
SmallArms ==
    {a \in (0..(MaxVisitors + 1)) \X (1..MaxVisitors) : a[1] <= a[2] + 1}

\* The observations of the worked examples, as <<control, variant>>.
ExamplePairs ==
    { <<<<100, 1000>>, <<130, 1000>>>>, <<<<130, 1000>>, <<100, 1000>>>>,
      <<<<0, 100>>, <<0, 100>>>>,
      <<<<0, 100>>, <<0, 1>>>>, <<<<0, 1>>, <<0, 100>>>>,
      <<<<16, FloatMaxInt>>, <<0, 5>>>> }

\* confidence_level values (ge=0.5, le=0.9999): 0.5, 0.9, 0.95, 0.9544999
\* and 0.9999.
ConfidenceLevels == {5000000, 9000000, 9500000, 9544999, 9999000}

Request(ctrl, var, conf) ==
    [control_conversions |-> ctrl[1], control_visitors |-> ctrl[2],
     variant_conversions |-> var[1],  variant_visitors |-> var[2],
     confidence_level    |-> conf]

Requests ==
    {Request(pr[1], pr[2], conf) :
        pr \in (SmallArms \X SmallArms) \cup ExamplePairs,
        conf \in ConfidenceLevels}

\* The request with the control and variant labels exchanged.
Swapped(r) ==
    [control_conversions |-> r.variant_conversions,
     control_visitors    |-> r.variant_visitors,
     variant_conversions |-> r.control_conversions,
     variant_visitors    |-> r.control_visitors,
     confidence_level    |-> r.confidence_level]

\* ValidationError checking the control arm only.
validation_control_only(r) ==
    IF r.control_conversions > r.control_visitors
    THEN "control_conversions cannot exceed control_visitors"
    ELSE ""

\* Lines 70-73: the two checks that raise HTTPException(400, ...).
ValidationError(r) ==
    IF r.control_conversions > r.control_visitors
    THEN "control_conversions cannot exceed control_visitors"
    ELSE IF r.variant_conversions > r.variant_visitors
    THEN "variant_conversions cannot exceed variant_visitors"
    ELSE ""

\* relative_uplift falling back to the absolute uplift when the control
\* rate is 0.
relative_uplift_absolute_at_zero(control_rate, variant_rate) ==
    IF control_rate > 0
    THEN MulDiv(FDiv(variant_rate - control_rate, control_rate), 100 * PCT, FP)
    ELSE MulDiv(variant_rate - control_rate, 100 * PCT, FP)

\* relative_uplift without the factor 100.0.
relative_uplift_fraction(control_rate, variant_rate) ==
    IF control_rate > 0
    THEN MulDiv(FDiv(variant_rate - control_rate, control_rate), PCT, FP)
    ELSE 0

\* Lines 89-92: relative_uplift_pct, a percentage.
relative_uplift(control_rate, variant_rate) ==
    IF control_rate > 0
    THEN MulDiv(FDiv(variant_rate - control_rate, control_rate), 100 * PCT, FP)
    ELSE 0

\* Lines 75-93: alpha, the two rates, the z-test, significance and the two
\* uplift figures, all unrounded.
FrequentistLocals(r) ==
    LET alpha        == FP - r.confidence_level
        control_rate == IntDiv(r.control_conversions, r.control_visitors)
        variant_rate == IntDiv(r.variant_conversions, r.variant_visitors)
        zt == _z_test_proportions(r.control_conversions, r.control_visitors,
                                  r.variant_conversions, r.variant_visitors)
    IN  [raised              |-> zt.raised,
         prob_b_beats_a      |-> 0,
         n_samples           |-> 0,
         alpha               |-> alpha,
         control_rate        |-> control_rate,
         variant_rate        |-> variant_rate,
         z_score             |-> zt.z,
         p_value             |-> zt.p,
         is_significant      |-> zt.p < alpha,
         relative_uplift_pct |-> relative_uplift(control_rate, variant_rate),
         absolute_uplift_pct |->
             MulDiv(variant_rate - control_rate, 100 * PCT, FP)]

\* Lines 95-104: the FrequentistResult, each figure rounded as reported.
FrequentistResult(r, l) ==
    [z_score             |-> PyRound(l.z_score, FP \div 10000),
     p_value             |-> PyRound(l.p_value, FP \div 1000000),
     is_significant      |-> l.is_significant,
     confidence_level    |-> r.confidence_level,
     relative_uplift_pct |-> PyRound(l.relative_uplift_pct, PCT \div 10000),
     absolute_uplift_pct |-> PyRound(l.absolute_uplift_pct, PCT \div 10000),
     control_rate        |-> PyRound(l.control_rate, FP \div 1000000),
     variant_rate        |-> PyRound(l.variant_rate, FP \div 1000000)]

\* BayesCall drawing a thousand samples for every visitor of the request.
bayes_call_samples_per_visitor(r) ==
    [c_ctrl    |-> r.control_conversions,
     n_ctrl    |-> r.control_visitors,
     c_var     |-> r.variant_conversions,
     n_var     |-> r.variant_visitors,
     n_samples |-> 1000 * (r.control_visitors + r.variant_visitors)]

\* Lines 107-111: the arguments of the call of _bayesian_analysis.
BayesCall(r) ==
    [c_ctrl    |-> r.control_conversions,
     n_ctrl    |-> r.control_visitors,
     c_var     |-> r.variant_conversions,
     n_var     |-> r.variant_visitors,
     n_samples |-> 100000]

\* Lines 113-117: the BayesianResult (prob_b_beats_a rounded to 4 places).
BayesianResult(prob_b_beats_a) ==
    [prob_b_beats_a |-> PyRound(prob_b_beats_a, FP \div 10000)]

\* Lines 121-126: the planner call, 10% relative lift at 80% power.
PlannerCall(l) ==
    _calculate_sample_size(l.control_rate, FP \div 10, l.alpha, 8 * (FP \div 10))

\* Lines 62-143 in one piece: what analyze_experiment answers to request r
\* when the Monte Carlo estimate carries the sampling error err.
AnalysisResponse(r, err) ==
    IF ValidationError(r) # ""
    THEN [status |-> 400, detail |-> ValidationError(r)]
    ELSE
    LET l == FrequentistLocals(r)
    IN  IF l.raised THEN [status |-> 500, detail |-> "Internal Server Error"]
        ELSE
        LET call == BayesCall(r)
            prob == _bayesian_analysis(call.c_ctrl, call.n_ctrl,
                                       call.c_var, call.n_var, err)
            n    == PlannerCall(l)
        IN  IF n.raised THEN [status |-> 500, detail |-> "planner"]
            ELSE [status             |-> 200,
                  frequentist        |-> FrequentistResult(r, l),
                  bayesian           |-> BayesianResult(prob),
                  recommendation     |->
                      _make_recommendation(
                          l.is_significant, l.relative_uplift_pct,
                          r.control_visitors + r.variant_visitors,
                          n.n, prob),
                  sample_size_needed |-> n.n]

Receive(r) ==
    /\ pc = "idle"
    /\ pc' = "validate"
    /\ req' = Some(r)
    /\ UNCHANGED <<locals, frequentist, bayesian, sample_size,
                   recommendation, response, fin, fout,
                   numpy, workers, timeline>>

Validate ==
    /\ pc = "validate"
    /\ IF ValidationError(req[1]) # ""
       THEN /\ response' = Some([status |-> 400,
                                 detail |-> ValidationError(req[1])])
            /\ pc' = "done"
       ELSE /\ pc' = "frequentist"
            /\ UNCHANGED response
    /\ UNCHANGED <<req, locals, frequentist, bayesian, sample_size,
                   recommendation, fin, fout,
                   numpy, workers, timeline>>

Frequentist ==
    /\ pc = "frequentist"
    /\ LET l == FrequentistLocals(req[1])
       IN  IF l.raised
           THEN /\ response' = Some([status |-> 500, detail |-> "Internal Server Error"])
                /\ pc' = "done"
                /\ UNCHANGED <<locals, frequentist, timeline>>
           ELSE /\ locals' = Some(l)
                /\ frequentist' = Some(FrequentistResult(req[1], l))
                /\ pc' = "bayesian"
                /\ UNCHANGED response
    /\ UNCHANGED <<req, bayesian, sample_size, recommendation, fin, fout,
                   numpy, workers, timeline>>

Bayesian ==
    /\ pc = "bayesian"
    /\ \E err \in SamplingErrors :
          LET call == BayesCall(req[1])
              prob == _bayesian_analysis(call.c_ctrl, call.n_ctrl,
                                         call.c_var, call.n_var, err)
          IN  /\ locals' = Some([locals[1] EXCEPT
                                    !.prob_b_beats_a = prob,
                                    !.n_samples = call.n_samples])
              /\ bayesian' = Some(BayesianResult(prob))
    /\ pc' = "sample_size"
    /\ UNCHANGED <<req, frequentist, sample_size, recommendation,
                   response, fin, fout,
                   numpy, workers, timeline>>

SampleSize ==
    /\ pc = "sample_size"
    /\ LET n == PlannerCall(locals[1])
       IN  IF n.raised
           THEN /\ response' = Some([status |-> 500, detail |-> "planner"])
                /\ pc' = "done"
                /\ UNCHANGED sample_size
           ELSE /\ sample_size' = Some(n.n)
                /\ pc' = "recommendation"
                /\ UNCHANGED response
    /\ UNCHANGED <<req, locals, frequentist, bayesian, recommendation, fin, fout,
                   numpy, workers, timeline>>

Recommend ==
    /\ pc = "recommendation"
    /\ recommendation' = Some(_make_recommendation(
           locals[1].is_significant,
           locals[1].relative_uplift_pct,
           req[1].control_visitors + req[1].variant_visitors,
           sample_size[1],
           locals[1].prob_b_beats_a))
    /\ pc' = "respond"
    /\ UNCHANGED <<req, locals, frequentist, bayesian, sample_size,
                   response, fin, fout,
                   numpy, workers, timeline>>

Respond ==
    /\ pc = "respond"
    /\ response' = Some([status             |-> 200,
                         frequentist        |-> frequentist[1],
                         bayesian           |-> bayesian[1],
                         recommendation     |-> recommendation[1],
                         sample_size_needed |-> sample_size[1]])
    /\ pc' = "done"
    /\ UNCHANGED <<req, locals, frequentist, bayesian, sample_size,
                   recommendation, fin, fout,
                   numpy, workers, timeline>>

\* The request is over: every request-scoped value is dropped.
Finish ==
    /\ pc = "done"
    /\ pc' = "idle"
    /\ req' = None
    /\ locals' = None
    /\ frequentist' = None
    /\ bayesian' = None
    /\ sample_size' = None
    /\ recommendation' = None
    /\ response' = None
    /\ UNCHANGED <<fin, fout,
                   numpy, workers, timeline>>

Init ==
    /\ pc = "idle"
    /\ req = None
    /\ locals = None
    /\ frequentist = None
    /\ bayesian = None
    /\ sample_size = None
    /\ recommendation = None
    /\ response = None
    /\ fin = None
    /\ fout = None
    /\ NoSampler
    /\ timeline = None

Next ==
    \/ \E r \in Requests : Receive(r)
    \/ Validate
    \/ Frequentist
    \/ Bayesian
    \/ SampleSize
    \/ Recommend
    \/ Respond
    \/ Finish

Spec == Init /\ [][Next]_vars

\* ------------------------------------------------------------------------
\* The helpers called on their own
\* ------------------------------------------------------------------------

HandlerIdle ==
    /\ pc = "idle"
    /\ req = None
    /\ locals = None
    /\ frequentist = None
    /\ bayesian = None
    /\ sample_size = None
    /\ recommendation = None
    /\ response = None

\* Arguments of _make_recommendation: uplifts around the 2.0 threshold,
\* visitor totals around twice the sample size, probabilities around the
\* 0.10 and 0.90 thresholds.
RecInputs ==
    [is_significant      : BOOLEAN,
     relative_uplift_pct : {-30 * PCT, -MinUpliftPct - 1, -MinUpliftPct,
                            -MinUpliftPct + 1, 0, MinUpliftPct - 1,
                            MinUpliftPct, MinUpliftPct + 1, 30 * PCT},
     total_visitors      : (0..(2 * MaxVisitors)) \cup {200, 2000},
     sample_size_needed  : {0, 1, MaxVisitors, 100, 14751},
     prob_b_beats_a      : {0, ProbLow - 1, ProbLow, FP \div 2,
                            ProbHigh, ProbHigh + 1, FP}]

InitRec == HandlerIdle /\ NoSampler /\ fin \in RecInputs /\ fout = None /\ timeline = None

CallRecommendation ==
    /\ fout = None
    /\ fout' = Some(_make_recommendation(
                        fin.is_significant, fin.relative_uplift_pct,
                        fin.total_visitors, fin.sample_size_needed,
                        fin.prob_b_beats_a))
    /\ UNCHANGED <<handler_vars, fin, numpy, workers, timeline>>

NextRec == CallRecommendation

SpecRec == InitRec /\ [][NextRec]_vars

\* Arguments of _z_test_proportions: every pair of arms with 0..MaxVisitors
\* visitors and no more conversions than visitors.
ZArms == {a \in (0..MaxVisitors) \X (0..MaxVisitors) : a[1] <= a[2]}

ZInputs == [ctrl : ZArms, var : ZArms]

InitZ == HandlerIdle /\ NoSampler /\ fin \in ZInputs /\ fout = None /\ timeline = None

CallZTest ==
    /\ fout = None
    /\ fout' = Some(_z_test_proportions(fin.ctrl[1], fin.ctrl[2],
                                        fin.var[1], fin.var[2]))
    /\ UNCHANGED <<handler_vars, fin, numpy, workers, timeline>>

NextZ == CallZTest

SpecZ == InitZ /\ [][NextZ]_vars

\* Arguments of _z_test_proportions that no request validation has
\* filtered: any counts of 0..MaxVisitors, conversions above visitors
\* included.
ZAnyInputs ==
    [ctrl : (0..MaxVisitors) \X (0..MaxVisitors),
     var  : (0..MaxVisitors) \X (0..MaxVisitors)]

InitZAny == HandlerIdle /\ NoSampler /\ fin \in ZAnyInputs /\ fout = None /\ timeline = None

CallZTestAny ==
    /\ fout = None
    /\ fout' = Some(_z_test_proportions(fin.ctrl[1], fin.ctrl[2],
                                        fin.var[1], fin.var[2]))
    /\ UNCHANGED <<handler_vars, fin, numpy, workers, timeline>>

NextZAny == CallZTestAny

SpecZAny == InitZAny /\ [][NextZAny]_vars

\* confidence_level values across the accepted range, 0.5 to 0.9999.
AcceptedLevels == {FP \div 2 + k * (FP \div 100) : k \in 0..49} \cup {FP - FP \div 10000}

\* Arguments of _norm_ppf: any p of -1.0, -0.95, ..., 2.0 and the values
\* next to 0 and 1 for a direct call, and the arguments the planner passes
\* for an accepted confidence_level at 80% power.
PpfInputs ==
    [p : {k * (FP \div 20) : k \in -20..40} \cup {-1, 1, FP - 1, FP + 1}, caller : {"direct"}]
    \cup {[p |-> planner_ppf_args(FP - conf, 8 * (FP \div 10))[i], caller |-> "planner"] :
              conf \in AcceptedLevels, i \in 1..2}

InitPpf == HandlerIdle /\ NoSampler /\ fin \in PpfInputs /\ fout = None /\ timeline = None

CallNormPpf ==
    /\ fout = None
    /\ fout' = Some(_norm_ppf(fin.p))
    /\ UNCHANGED <<handler_vars, fin, numpy, workers, timeline>>

NextPpf == CallNormPpf

SpecPpf == InitPpf /\ [][NextPpf]_vars

\* Arguments of _calculate_sample_size as the endpoint calls it: a rate of
\* a small arm or one of -0.1, 0.05, 0.1, 0.95, 0.999, 0.9999, 1.5 as the
\* baseline, 1 - confidence_level as alpha.
SizeInputs ==
    [baseline_rate :
         {IntDiv(a[1], a[2]) : a \in {b \in SmallArms : b[1] <= b[2]}}
         \cup {-1000000, 500000, 1000000, 9500000, 9990000, 9999000, 15000000},
     alpha : {FP - conf : conf \in ConfidenceLevels}]

InitSize == HandlerIdle /\ NoSampler /\ fin \in SizeInputs /\ fout = None /\ timeline = None

CallSampleSize ==
    /\ fout = None
    /\ fout' = Some(_calculate_sample_size(fin.baseline_rate, FP \div 10,
                                           fin.alpha, 8 * (FP \div 10)))
    /\ UNCHANGED <<handler_vars, fin, numpy, workers, timeline>>

NextSize == CallSampleSize

SpecSize == InitSize /\ [][NextSize]_vars

\* Arguments of _bayesian_analysis followed draw by draw: arms of one or
\* two visitors, MaxSamples draws per arm.
BayesArms == {<<0, 1>>, <<1, 2>>, <<2, 2>>}

BayesInputs == [ctrl : BayesArms, var : BayesArms, n_samples : {MaxSamples}]

InitBayes ==
    /\ HandlerIdle
    /\ workers = None
    /\ numpy \in [pcg64 : Streams, global : {GlobalGenerator}]
    /\ fin \in BayesInputs
    /\ fout = <<>>
    /\ timeline = None

\* One more invocation with the same arguments; fout collects what each
\* invocation returned.
CallBayes ==
    /\ Len(fout) < 2
    /\ LET b == bayesian_draws(fin.ctrl[1], fin.ctrl[2], fin.var[1], fin.var[2],
                               fin.n_samples, numpy)
       IN  /\ fout' = Append(fout, BayesReturn(b))
           /\ numpy' = [numpy EXCEPT !.global = b.global]
    /\ UNCHANGED <<handler_vars, fin, workers, timeline>>

NextBayes == CallBayes

SpecBayes == InitBayes /\ [][NextBayes]_vars

\* Largest number of /analyze calls in flight at the same time.
MaxWorkers == 2

Workers == 1..MaxWorkers

\* The requests served side by side: two small arms, and the worked example.
ConcRequests ==
    { Request(<<1, 2>>, <<2, 3>>, 9500000),
      Request(<<100, 1000>>, <<130, 1000>>, 9500000) }

\* A call of analyze_experiment: its position, its request, its local
\* generator, how the draws of each arm fell, and its response.
\* overlapped records that another call was between creating its generator
\* and responding when this one drew its variant samples.
IdleWorker ==
    [pc |-> "idle", req |-> None, rng |-> None, dev_ctrl |-> 0, dev_var |-> 0,
     overlapped |-> FALSE, response |-> None]

\* The streams whose draws within one block all fall on the same side.
BlockwiseStreams ==
    {[b \in Blocks |-> [i \in 1..MaxSamples |-> lv[b]]] : lv \in [Blocks -> Levels]}

InitConc ==
    /\ HandlerIdle
    /\ fin = None
    /\ fout = None
    /\ numpy \in [pcg64 : BlockwiseStreams, global : {GlobalGenerator}]
    /\ workers = [w \in Workers |-> IdleWorker]
    /\ timeline = None

Accept(w, r) ==
    /\ workers[w].pc = "idle"
    /\ workers' = [workers EXCEPT ![w].pc = "rng", ![w].req = Some(r)]
    /\ UNCHANGED <<handler_vars, fin, fout, numpy, timeline>>

\* Line 214: rng = np.random.default_rng(seed=42).
MakeRng(w) ==
    /\ workers[w].pc = "rng"
    /\ workers' = [workers EXCEPT ![w].pc = "draw_ctrl",
                                  ![w].rng = Some(default_rng(42))]
    /\ UNCHANGED <<handler_vars, fin, fout, numpy, timeline>>

\* Line 215: the control draws, from the generator the sampler names.
DrawCtrl(w) ==
    /\ workers[w].pc = "draw_ctrl"
    /\ LET g == sampler(workers[w].rng[1], numpy.global)
       IN  /\ workers' = [workers EXCEPT
                  ![w].pc = "draw_var",
                  ![w].dev_ctrl = BlockDeviation(numpy.pcg64[Block(g)]),
                  ![w].rng = IF g.name = numpy.global.name THEN @
                             ELSE Some(Advance(g))]
           /\ numpy' = IF g.name = numpy.global.name
                       THEN [numpy EXCEPT !.global = Advance(g)]
                       ELSE numpy
    /\ UNCHANGED <<handler_vars, fin, fout, timeline>>

\* Line 216: the variant draws.
DrawVar(w) ==
    /\ workers[w].pc = "draw_var"
    /\ LET g == sampler(workers[w].rng[1], numpy.global)
       IN  /\ workers' = [workers EXCEPT
                  ![w].pc = "respond",
                  ![w].dev_var = BlockDeviation(numpy.pcg64[Block(g)]),
                  ![w].overlapped =
                      \E v \in Workers \ {w} :
                          workers[v].pc \in {"draw_ctrl", "draw_var", "respond"},
                  ![w].rng = IF g.name = numpy.global.name THEN @
                             ELSE Some(Advance(g))]
           /\ numpy' = IF g.name = numpy.global.name
                       THEN [numpy EXCEPT !.global = Advance(g)]
                       ELSE numpy
    /\ UNCHANGED <<handler_vars, fin, fout, timeline>>

\* Lines 218-228 and the rest of analyze_experiment: the response.
RespondConc(w) ==
    /\ workers[w].pc = "respond"
    /\ workers' = [workers EXCEPT
           ![w].pc = "done",
           ![w].response = Some(AnalysisResponse(
               workers[w].req[1],
               SamplingError(workers[w].dev_ctrl, workers[w].dev_var)))]
    /\ UNCHANGED <<handler_vars, fin, fout, numpy, timeline>>

\* The call is over; its locals are dropped.
Return(w) ==
    /\ workers[w].pc = "done"
    /\ workers' = [workers EXCEPT ![w] = IdleWorker]
    /\ UNCHANGED <<handler_vars, fin, fout, numpy, timeline>>

NextConc ==
    \E w \in Workers :
        \/ \E r \in ConcRequests : Accept(w, r)
        \/ MakeRng(w)
        \/ DrawCtrl(w)
        \/ DrawVar(w)
        \/ RespondConc(w)
        \/ Return(w)

SpecConc == InitConc /\ [][NextConc]_vars

\* ------------------------------------------------------------------------
\* Attribution weights (src/api/routers/attribution.py)
\* ------------------------------------------------------------------------

\* The occurred_at strings of the journeys: a date, a timestamp with Z, a
\* timestamp with a space, and a string that no format accepts.
Stamps == {"2024-01-01", "2024-01-04T00:00:00Z", "2024-07-19 00:00:00", "yesterday"}

\* _parse_iso: the parsed time, in days since 2024-01-01, or None.
_parse_iso(ts_str) ==
    IF ts_str = "" THEN None
    ELSE IF ts_str = "2024-01-01" THEN Some(0)
    ELSE IF ts_str = "2024-01-04T00:00:00Z" THEN Some(3)
    ELSE IF ts_str = "2024-07-19 00:00:00" THEN Some(200)
    ELSE None

\* [x] * k.
Replicate(x, k) == IF k <= 0 THEN <<>> ELSE [i \in 1..k |-> x]

\* _u_shaped without its special case for two touches.
u_shaped_no_pair_case(n) ==
    LET middle_count  == n - 2
        middle_weight == IF middle_count > 0 THEN (FP \div 5) \div middle_count ELSE 0
    IN  <<2 * (FP \div 5)>> \o Replicate(middle_weight, middle_count) \o <<2 * (FP \div 5)>>

\* _u_shaped: 40% first, 40% last, 20% over the middle; 50/50 for two.
_u_shaped(n) ==
    IF n = 2 THEN <<FP \div 2, FP \div 2>>
    ELSE LET middle_count  == n - 2
             middle_weight == IF middle_count > 0 THEN (FP \div 5) \div middle_count ELSE 0
         IN  <<2 * (FP \div 5)>> \o Replicate(middle_weight, middle_count) \o <<2 * (FP \div 5)>>

\* half_life_days of _time_decay.
HalfLifeDays == 7

\* 0.5^(j/7) for j = 0..6.
SeventhRoots == <<10000000, 9057237, 8203354, 7429971, 6729501, 6095068, 5520448>>

\* x * 0.5^k; underflows to 0.
RECURSIVE Halve(_, _)
Halve(x, k) == IF k = 0 \/ x = 0 THEN x ELSE Halve(x \div 2, k - 1)

\* math.pow(0.5, days_before / half_life_days) for a whole number of days.
pow_half(days_before) ==
    Halve(SeventhRoots[(days_before % HalfLifeDays) + 1], days_before \div HalfLifeDays)

\* _time_decay: 0.5^(days before the last touch / 7), normalised; a touch
\* whose time does not parse counts its position from the end as days.
_time_decay(tps) ==
    LET n             == Len(tps)
        conversion_ts == _parse_iso(tps[n].occurred_at)
        days_before(i) ==
            IF conversion_ts # None
            THEN LET ts == _parse_iso(tps[i].occurred_at)
                 IN  IF ts # None THEN Max(0, conversion_ts[1] - ts[1]) ELSE n - i
            ELSE n - i
        raw_weights   == [i \in 1..n |-> pow_half(days_before(i))]
        total         == IF SeqSum(raw_weights) = 0 THEN FP ELSE SeqSum(raw_weights)
    IN  [i \in 1..n |-> FDiv(raw_weights[i], total)]

\* _shapley_heuristic: first and last weigh 2, the others 1, normalised.
_shapley_heuristic(n) ==
    LET weights == [i \in 1..n |-> IF i = 1 \/ i = n THEN 2 * FP ELSE FP]
        total   == SeqSum(weights)
    IN  [i \in 1..n |-> FDiv(weights[i], total)]

\* The Shapley accumulators hold up to 8! times a value of at most 1; one
\* unit of an accumulator is 1/ShapleyUnit.
ShapleyUnit == 1000

\* Largest journey whose orderings _data_driven enumerates.
ExactShapleyMax == 8

RECURSIVE Factorial(_)
Factorial(n) == IF n <= 1 THEN 1 ELSE n * Factorial(n - 1)

\* math.sqrt(1.0 / (pos + 1)), pos counted from 0.
individual_value(pos) == Sqrt(IntDiv(1, pos + 1))

\* _data_driven: every one of the n! orderings adds v_with - v_without,
\* the individual value of the position, to the position's accumulator;
\* the accumulators are then normalised.
_data_driven(n) ==
    IF n <= 1 THEN Replicate(IntDiv(1, Max(n, 1)), n)
    ELSE IF n > ExactShapleyMax THEN _shapley_heuristic(n)
    ELSE LET shapley == [i \in 1..n |->
                 Factorial(n) * (individual_value(i - 1) \div (FP \div ShapleyUnit))]
             total   == IF SeqSum(shapley) = 0 THEN ShapleyUnit ELSE SeqSum(shapley)
         IN  [i \in 1..n |-> MulDiv(shapley[i], FP, total)]

\* _calculate_weights: the weights of the touches of tps under model.
_calculate_weights(tps, model) ==
    LET n == Len(tps)
    IN  IF n = 0 THEN <<>>
        ELSE IF n = 1 THEN <<FP>>
        ELSE IF model = "u_shaped" THEN _u_shaped(n)
        ELSE IF model = "linear" THEN Replicate(IntDiv(1, n), n)
        ELSE IF model = "time_decay" THEN _time_decay(tps)
        ELSE IF model = "first_touch" THEN <<FP>> \o Replicate(0, n - 1)
        ELSE IF model = "last_touch" THEN Replicate(0, n - 1) \o <<FP>>
        ELSE IF model = "data_driven" THEN _data_driven(n)
        ELSE _u_shaped(n)

\* Longest journey.
MaxTouches == 10

\* model_type of AttributionRequest.
AttributionModels ==
    {"u_shaped", "linear", "time_decay", "first_touch", "last_touch", "data_driven"}

\* A journey of n touches from the times of its first, middle and last touches.
Journey(n, first, middle, last) ==
    [i \in 1..n |->
        [occurred_at |-> IF i = n THEN last ELSE IF i = 1 THEN first ELSE middle]]

Journeys ==
    {Journey(n, s[1], s[2], s[3]) : n \in 1..MaxTouches, s \in Stamps \X Stamps \X Stamps}

InitAttr ==
    /\ HandlerIdle
    /\ NoSampler
    /\ fin \in [tps : Journeys, model : AttributionModels]
    /\ fout = None
    /\ timeline = None

CallWeights ==
    /\ fout = None
    /\ fout' = Some(_calculate_weights(fin.tps, fin.model))
    /\ UNCHANGED <<handler_vars, fin, numpy, workers, timeline>>

NextAttr == CallWeights

SpecAttr == InitAttr /\ [][NextAttr]_vars


\* ------------------------------------------------------------------------
\* Content decay (src/api/routers/content_intel.py)
\* ------------------------------------------------------------------------

\* (last - prior) / prior * 100.0 as a percentage, for the clamped prior.
change_pct(last, prior) == MulDiv(last - prior, 100 * PCT, prior)

\* Lines 219-224: the change of a count over the prior period; the prior
\* count is clamped to 1 before it is subtracted and divided by.
period_change(last_30d, prior_30d) == change_pct(last_30d, Max(prior_30d, 1))

\* Lines 237-245: the status of the worse of the two changes.
decay_status(worst_change) ==
    IF worst_change >= -10 * PCT THEN "healthy"
    ELSE IF worst_change >= -30 * PCT THEN "slight_decay"
    ELSE IF worst_change >= -50 * PCT THEN "significant_decay"
    ELSE "critical_decay"

\* _recommend_action; serp_change is None or Some(whole positions).
_recommend_action(status, serp_change, traffic_change_pct) ==
    IF status = "healthy" THEN "monitor"
    ELSE IF status = "slight_decay"
    THEN IF serp_change # None /\ serp_change[1] < -3 THEN "add_schema"
         ELSE "refresh_content"
    ELSE IF status = "significant_decay"
    THEN IF serp_change # None /\ serp_change[1] < -5 THEN "build_backlinks"
         ELSE "rewrite"
    ELSE IF traffic_change_pct < -75 * PCT THEN "redirect"
    ELSE "rewrite"

\* _analyze_asset_decay: the DecayResult of one asset, without its id and
\* title. Percentages and the score are in units of 1/PCT.
_analyze_asset_decay(asset) ==
    LET traffic_change_pct == period_change(asset.pageviews_last_30d, asset.pageviews_prior_30d)
        lead_change_pct    == period_change(asset.leads_last_30d, asset.leads_prior_30d)
        serp_change ==
            IF asset.serp_position_current # None /\ asset.serp_position_prior # None
            THEN Some(asset.serp_position_prior[1] - asset.serp_position_current[1])
            ELSE None
        worst_change == Min(traffic_change_pct, lead_change_pct)
        status       == decay_status(worst_change)
        serp_drop_factor ==
            IF serp_change # None /\ serp_change[1] < 0
            THEN Min(100 * PCT, Abs(serp_change[1]) * 5 * PCT)
            ELSE 0
        priority_score ==
            Min(100 * PCT,
                MulDiv(4, Min(100 * PCT, Abs(traffic_change_pct)), 10)
                + MulDiv(4, Min(100 * PCT, Abs(lead_change_pct)), 10)
                + MulDiv(2, serp_drop_factor, 10))
    IN  [decay_status       |-> status,
         traffic_change_pct |-> PyRound(traffic_change_pct, PCT \div 100),
         lead_change_pct    |-> PyRound(lead_change_pct, PCT \div 100),
         serp_change        |-> serp_change,
         recommended_action |-> _recommend_action(status, serp_change, traffic_change_pct),
         priority_score     |-> PyRound(priority_score, PCT \div 100)]

\* Largest count of pageviews or leads in a period.
MaxCount == 10

\* The counts of the last and the prior period: a prior period with no
\* count, with one, and with MaxCount.
PeriodCounts == (0..MaxCount) \X {0, 1, MaxCount}

\* Current and prior SERP positions: unknown, half known, unchanged,
\* dropped by 4 and by 9, improved by 4.
SerpPositions ==
    { <<None, None>>, <<Some(3), None>>, <<Some(3), Some(3)>>,
      <<Some(5), Some(1)>>, <<Some(10), Some(1)>>, <<Some(1), Some(5)>> }

DecayAssets ==
    {[pageviews_last_30d    |-> pv[1], pageviews_prior_30d |-> pv[2],
      leads_last_30d        |-> ld[1], leads_prior_30d     |-> ld[2],
      serp_position_current |-> sp[1], serp_position_prior |-> sp[2]] :
        pv \in PeriodCounts, ld \in PeriodCounts, sp \in SerpPositions}

InitDecay ==
    /\ HandlerIdle
    /\ NoSampler
    /\ fin \in DecayAssets
    /\ fout = None
    /\ timeline = None

CallAnalyzeDecay ==
    /\ fout = None
    /\ fout' = Some(_analyze_asset_decay(fin))
    /\ UNCHANGED <<handler_vars, fin, numpy, workers, timeline>>

NextDecay == CallAnalyzeDecay

SpecDecay == InitDecay /\ [][NextDecay]_vars


\* decay_detection leaving the results in the order of the request.
results_unsorted(results) == results

\* The place of r among results sorted by falling priority_score: behind
\* every result whose score is at least its own.
RECURSIVE insert_by_priority(_, _)
insert_by_priority(sorted, r) ==
    IF sorted = <<>> THEN <<r>>
    ELSE IF Head(sorted).priority_score >= r.priority_score
         THEN <<Head(sorted)>> \o insert_by_priority(Tail(sorted), r)
         ELSE <<r>> \o sorted

\* Line 206: results.sort(key=priority_score, reverse=True), a stable sort.
RECURSIVE sort_by_priority(_)
sort_by_priority(results) ==
    IF results = <<>> THEN <<>>
    ELSE insert_by_priority(sort_by_priority(SubSeq(results, 1, Len(results) - 1)),
                            results[Len(results)])

\* Lines 201-203: the DecayResult of an asset, with the asset's id.
DecayResultOf(asset) ==
    LET result == _analyze_asset_decay(asset)
    IN  [id                 |-> asset.id,
         decay_status       |-> result.decay_status,
         traffic_change_pct |-> result.traffic_change_pct,
         lead_change_pct    |-> result.lead_change_pct,
         serp_change        |-> result.serp_change,
         recommended_action |-> result.recommended_action,
         priority_score     |-> result.priority_score]

\* decay_detection: the results of the assets, most urgent first.
decay_detection(content_assets) ==
    [assets |-> sort_by_priority(
                    [i \in 1..Len(content_assets) |-> DecayResultOf(content_assets[i])])]

\* Longest list of assets in a request.
MaxAssets == 3

\* The assets of the requests: unchanged, traffic down by 20%, leads down
\* by 60%, no counts at all, everything lost with a SERP drop of 25, and
\* traffic grown tenfold.
AssetKinds ==
    { [pageviews_last_30d |-> 10, pageviews_prior_30d |-> 10, leads_last_30d |-> 2, leads_prior_30d |-> 2,
       serp_position_current |-> None, serp_position_prior |-> None],
      [pageviews_last_30d |-> 8, pageviews_prior_30d |-> 10, leads_last_30d |-> 2, leads_prior_30d |-> 2,
       serp_position_current |-> Some(3), serp_position_prior |-> Some(3)],
      [pageviews_last_30d |-> 10, pageviews_prior_30d |-> 10, leads_last_30d |-> 2, leads_prior_30d |-> 5,
       serp_position_current |-> Some(5), serp_position_prior |-> Some(1)],
      [pageviews_last_30d |-> 0, pageviews_prior_30d |-> 0, leads_last_30d |-> 0, leads_prior_30d |-> 0,
       serp_position_current |-> None, serp_position_prior |-> None],
      [pageviews_last_30d |-> 0, pageviews_prior_30d |-> 10, leads_last_30d |-> 0, leads_prior_30d |-> 5,
       serp_position_current |-> Some(26), serp_position_prior |-> Some(1)],
      [pageviews_last_30d |-> 100, pageviews_prior_30d |-> 10, leads_last_30d |-> 2, leads_prior_30d |-> 2,
       serp_position_current |-> Some(1), serp_position_prior |-> Some(5)] }

\* An asset of a kind with its id.
AssetWithId(id, kind) ==
    [id |-> id,
     pageviews_last_30d |-> kind.pageviews_last_30d, pageviews_prior_30d |-> kind.pageviews_prior_30d,
     leads_last_30d |-> kind.leads_last_30d, leads_prior_30d |-> kind.leads_prior_30d,
     serp_position_current |-> kind.serp_position_current, serp_position_prior |-> kind.serp_position_prior]

\* content_assets of DecayDetectionRequest (min_length=1): the asset at
\* place i has id i.
DetectionRequests ==
    UNION {{[i \in 1..n |-> AssetWithId(i, kinds[i])] : kinds \in [1..n -> AssetKinds]} : n \in 1..MaxAssets}

InitDetect ==
    /\ HandlerIdle
    /\ NoSampler
    /\ fin \in DetectionRequests
    /\ fout = None
    /\ timeline = None

CallDecayDetection ==
    /\ fout = None
    /\ fout' = Some(decay_detection(fin))
    /\ UNCHANGED <<handler_vars, fin, numpy, workers, timeline>>

NextDetect == CallDecayDetection

SpecDetect == InitDetect /\ [][NextDetect]_vars


\* ------------------------------------------------------------------------
\* Paid-unlock timeline (src/api/routers/forecasting.py)
\* ------------------------------------------------------------------------

\* One unit of money, of a lead count and of a customer count is 1/MU.
MU == 1000

\* One unit of the growth rate g and of (1 + g)^month is 1/GR.
GR == 100000

\* The months the projection loop runs over: range(1, 61).
Horizon == 60

\* (1.0 + g) ** month, by repeated squaring.
RECURSIVE growth_pow(_, _)
growth_pow(g, month) ==
    IF month = 0 THEN GR
    ELSE LET half   == growth_pow(g, month \div 2)
             square == MulDiv(half, half, GR)
         IN  IF month % 2 = 0 THEN square ELSE MulDiv(square, GR + g, GR)

\* Lines 298-300: the new MRR of a month.
new_mrr(r, month) ==
    LET leads         == MulDiv(r.current_organic_leads_per_month, growth_pow(r.organic_growth_rate_monthly, month), GR)
        new_customers == FMul(FMul(leads, r.current_mql_rate), r.current_close_rate)
    IN  MulDiv(new_customers, r.current_avg_deal_size, MU)

\* Lines 274-279: thresholds and labels of the four milestones.
milestone_labels(r) ==
    << [threshold |-> FMul(r.target_mrr, FP \div 4),       label |-> "25% of target MRR"],
       [threshold |-> FMul(r.target_mrr, FP \div 2),       label |-> "50% of target MRR"],
       [threshold |-> FMul(r.target_mrr, 3 * (FP \div 4)), label |-> "75% of target MRR"],
       [threshold |-> r.target_mrr,                        label |-> "100% - target MRR"] >>

\* The milestone check as an if in place of the while: at most one
\* milestone a month.
milestone_checks_one_a_month(labels, milestone_idx, milestone_breakdown, month, mrr) ==
    IF milestone_idx < Len(labels) /\ mrr >= labels[milestone_idx + 1].threshold
    THEN [milestone_idx |-> milestone_idx + 1,
          milestone_breakdown |-> Append(milestone_breakdown,
                    [month |-> month, label |-> labels[milestone_idx + 1].label,
                     projected_mrr |-> PyRound(mrr, MU \div 100)])]
    ELSE [milestone_idx |-> milestone_idx, milestone_breakdown |-> milestone_breakdown]

\* Lines 308-320: the milestone loop of one month, from milestone_idx
\* (milestones recorded so far) with the month's mrr.
RECURSIVE milestone_checks(_, _, _, _, _)
milestone_checks(labels, milestone_idx, milestone_breakdown, month, mrr) ==
    IF milestone_idx < Len(labels) /\ mrr >= labels[milestone_idx + 1].threshold
    THEN milestone_checks(labels, milestone_idx + 1,
             Append(milestone_breakdown,
                    [month |-> month, label |-> labels[milestone_idx + 1].label,
                     projected_mrr |-> PyRound(mrr, MU \div 100)]),
             month, mrr)
    ELSE [milestone_idx |-> milestone_idx, milestone_breakdown |-> milestone_breakdown]

\* Line 322 without its test that months_to_target is still None.
target_month_overwritten(months_to_target, month, mrr, target_mrr) ==
    IF mrr >= target_mrr THEN Some(month) ELSE months_to_target

\* Lines 322-323: months_to_target after a month.
target_month(months_to_target, month, mrr, target_mrr) ==
    IF months_to_target = None /\ mrr >= target_mrr THEN Some(month) ELSE months_to_target

\* _build_paid_unlock_recommendation: which of the five texts, and the
\* month it names.
_build_paid_unlock_recommendation(months_to_target, organic_growth_rate) ==
    IF months_to_target = None
    THEN IF organic_growth_rate <= 0 THEN [text |-> "flat_or_negative", months |-> None]
         ELSE [text |-> "not_reachable", months |-> None]
    ELSE IF months_to_target[1] <= 6 THEN [text |-> "reachable_cro", months |-> months_to_target]
    ELSE IF months_to_target[1] <= 12 THEN [text |-> "reachable_paid_experiments", months |-> months_to_target]
    ELSE [text |-> "projected_seo", months |-> months_to_target]

\* The PaidUnlockRequests served: no leads or ten a month, growth of
\* -150%, -100%, 0 and 10% a month, half of the leads qualified, a fifth
\* of those closed at 100 a deal.
UnlockRequests ==
    [current_organic_leads_per_month : {0, 10 * MU},
     current_mql_rate                : {FP \div 2},
     current_close_rate              : {FP \div 5},
     current_avg_deal_size           : {100 * MU},
     target_mrr                      : {970 * MU, 1000 * MU, 5000 * MU, 50000 * MU, 400000 * MU},
     current_mrr                     : {0, 300 * MU, 1000 * MU, 6000 * MU},
     organic_growth_rate_monthly     : {-3 * (GR \div 2), -GR, 0, GR \div 10}]

\* Lines 270-287: the locals before the first month.
TimelineStart(r) ==
    [pc |-> "loop", req |-> r, month |-> 0, mrr |-> r.current_mrr,
     months_to_target |-> None, milestone_idx |-> 0, milestone_breakdown |-> <<>>,
     mrr_at_6mo |-> r.current_mrr, mrr_at_12mo |-> r.current_mrr, response |-> None]

InitUnlock ==
    /\ HandlerIdle
    /\ NoSampler
    /\ fin = None
    /\ fout = None
    /\ timeline \in {TimelineStart(r) : r \in UnlockRequests}

\* Lines 297-323: one pass of the loop over the months.
ProjectMonth ==
    /\ timeline.pc = "loop"
    /\ timeline.month < Horizon
    /\ LET month  == timeline.month + 1
           mrr    == timeline.mrr + new_mrr(timeline.req, month)
           checks == milestone_checks(milestone_labels(timeline.req), timeline.milestone_idx,
                                      timeline.milestone_breakdown, month, mrr)
       IN  timeline' = [timeline EXCEPT
               !.month = month,
               !.mrr = mrr,
               !.mrr_at_6mo = IF month = 6 THEN mrr ELSE @,
               !.mrr_at_12mo = IF month = 12 THEN mrr ELSE @,
               !.milestone_idx = checks.milestone_idx,
               !.milestone_breakdown = checks.milestone_breakdown,
               !.months_to_target = target_month(@, month, mrr, timeline.req.target_mrr)]
    /\ UNCHANGED <<handler_vars, fin, fout, numpy, workers>>

\* Lines 325-339: the recommendation and the response.
ReturnTimeline ==
    /\ timeline.pc = "loop"
    /\ timeline.month = Horizon
    /\ timeline' = [timeline EXCEPT
           !.pc = "done",
           !.response = Some(
               [months_to_target              |-> timeline.months_to_target,
                projected_monthly_mrr_at_6mo  |-> PyRound(timeline.mrr_at_6mo, MU \div 100),
                projected_monthly_mrr_at_12mo |-> PyRound(timeline.mrr_at_12mo, MU \div 100),
                milestone_breakdown           |-> timeline.milestone_breakdown,
                recommendation                |-> _build_paid_unlock_recommendation(
                    timeline.months_to_target, timeline.req.organic_growth_rate_monthly)])]
    /\ UNCHANGED <<handler_vars, fin, fout, numpy, workers>>

NextUnlock == ProjectMonth \/ ReturnTimeline

SpecUnlock == InitUnlock /\ [][NextUnlock]_vars


\* ------------------------------------------------------------------------
\* Lead scoring (src/api/routers/scoring.py)
\* ------------------------------------------------------------------------

\* The job titles of the leads. "Director" holds the keyword "cto".
JobTitles == {"", "CEO", "Director", "Head of Growth", "Marketing Manager", "Analyst"}

\* _is_csuite: the lowered title holds one of CSUITE_KEYWORDS.
_is_csuite(job_title) == job_title \in {"CEO", "Director"}

\* Lines 122-147: the base score times the bonus multiplier, capped at
\* 100. Scores are in units of 1/PCT.
composite_score(lead) ==
    LET base == MulDiv(lead.intent_score, 40, 100)
                + MulDiv(lead.fit_score, 35, 100)
                + MulDiv(lead.engagement_score, 25, 100)
        is_enterprise         == lead.company_size # None /\ lead.company_size[1] > 500
        has_content_downloads == lead.content_downloads > 3
        multiplier == FP + (IF is_enterprise THEN FP \div 10 ELSE 0)
                         + (IF _is_csuite(lead.job_title) THEN FP \div 20 ELSE 0)
                         + (IF has_content_downloads THEN FP \div 20 ELSE 0)
    IN  Min(100 * PCT, FMul(base, multiplier))

\* _classify_segment with hot starting at 80.
classify_segment_hot_from_80(composite) ==
    IF composite >= 80 * PCT THEN "hot"
    ELSE IF composite >= 60 * PCT THEN "warm"
    ELSE IF composite >= 40 * PCT THEN "cool"
    ELSE "cold"

_classify_segment(composite) ==
    IF composite > 80 * PCT THEN "hot"
    ELSE IF composite >= 60 * PCT THEN "warm"
    ELSE IF composite >= 40 * PCT THEN "cool"
    ELSE "cold"

\* _recommend_action of scoring.py: the action of a segment.
segment_action(composite, segment) ==
    IF segment = "hot" THEN "immediate_outreach"
    ELSE IF segment = "warm" THEN "nurture_sequence"
    ELSE IF segment = "cool" THEN "educational_content"
    ELSE IF segment = "cold" THEN "disqualify"
    ELSE "educational_content"

\* _calculate_icp_fit: the average of the size, title and industry fits
\* that are known, 50 when none is.
_calculate_icp_fit(company_size, job_title, industry) ==
    LET size_fit ==
            IF company_size = None THEN <<>>
            ELSE IF 50 <= company_size[1] /\ company_size[1] <= 500 THEN <<100 * PCT>>
            ELSE IF company_size[1] > 500 THEN <<80 * PCT>>
            ELSE IF 10 <= company_size[1] /\ company_size[1] < 50 THEN <<50 * PCT>>
            ELSE <<20 * PCT>>
        title_fit ==
            IF job_title = "" THEN <<>>
            ELSE IF _is_csuite(job_title) THEN <<100 * PCT>>
            ELSE IF job_title = "Head of Growth" THEN <<80 * PCT>>
            ELSE IF job_title = "Marketing Manager" THEN <<60 * PCT>>
            ELSE <<20 * PCT>>
        industry_fit ==
            IF industry = "" THEN <<>>
            ELSE IF industry = "SaaS" THEN <<100 * PCT>>
            ELSE <<50 * PCT>>
        scores == size_fit \o title_fit \o industry_fit
    IN  IF scores = <<>> THEN 50 * PCT ELSE SeqSum(scores) \div Len(scores)

\* _calculate_velocity: ten times the actions per day, capped at 100.
_calculate_velocity(lead) ==
    LET total_actions == lead.pages_visited + lead.email_opens + lead.content_downloads
        days          == Max(lead.days_since_first_touch, 1)
    IN  Min(100 * PCT, MulDiv(total_actions, 10 * PCT, days))

\* _score_lead: the EnhancedLead of a lead, without its id and its
\* top_signals texts.
_score_lead(lead) ==
    LET composite == composite_score(lead)
        segment   == _classify_segment(composite)
    IN  [composite_score    |-> PyRound(composite, PCT \div 100),
         segment            |-> segment,
         recommended_action |-> segment_action(composite, segment),
         icp_fit_pct        |-> PyRound(_calculate_icp_fit(lead.company_size, lead.job_title, lead.industry), PCT \div 100),
         velocity_score     |-> PyRound(_calculate_velocity(lead), PCT \div 100)]

\* The raw scores of the leads: the thresholds, the ends of the range, and
\* values a little to either side of 80.
RawScores == {0, 40 * PCT, 60 * PCT, 80 * PCT - 160, 80 * PCT, 80 * PCT + 160, 100 * PCT}

LeadInputs ==
    [intent_score           : RawScores,
     fit_score              : RawScores,
     engagement_score       : RawScores,
     company_size           : {None, Some(500), Some(501)},
     job_title              : JobTitles,
     industry               : {"", "SaaS"},
     pages_visited          : {5},
     email_opens            : {0},
     content_downloads      : {3, 4},
     days_since_first_touch : {0, 30}]

InitScore ==
    /\ HandlerIdle
    /\ NoSampler
    /\ fin \in LeadInputs
    /\ fout = None
    /\ timeline = None

CallScoreLead ==
    /\ fout = None
    /\ fout' = Some(_score_lead(fin))
    /\ UNCHANGED <<handler_vars, fin, numpy, workers, timeline>>

NextScore == CallScoreLead

SpecScore == InitScore /\ [][NextScore]_vars


\* ------------------------------------------------------------------------
\* Properties of the decision policy (checked under SpecRec)
\* ------------------------------------------------------------------------

\* The three conditions of the decision table, on the arguments in fin.
WinnerCondition ==
    fin.is_significant /\ Abs(fin.relative_uplift_pct) >= 2 * PCT

NegligibleCondition ==
    fin.is_significant /\ Abs(fin.relative_uplift_pct) < 2 * PCT

LargeSampleCondition ==
    /\ fin.total_visitors >= 2 * fin.sample_size_needed
    /\ (fin.prob_b_beats_a < FP \div 10 \/ fin.prob_b_beats_a > 9 * (FP \div 10))

\* C1: the decision policy returns declare_winner exactly when
\* is_significant is true and |relative_uplift_pct| >= 2.0, whatever the
\* visitor total, the sample size needed and the Bayesian probability.
C1_DeclareWinnerIff ==
    fout # None => (fout[1] = "declare_winner" <=> WinnerCondition)

\* C1 witness: a winner declared at an uplift of exactly 2.0 although the
\* sample size is not reached.
C1_Witness ==
    /\ fout = Some("declare_winner")
    /\ Abs(fin.relative_uplift_pct) = 2 * PCT
    /\ fin.total_visitors < 2 * fin.sample_size_needed

\* C2 as stated: whenever is_significant and |uplift| < 2.0, or whenever
\* total_visitors >= 2 x sample_size_needed and the probability is below
\* 0.10 or above 0.90, the recommendation is stop_test_no_winner.
C2_StopAsStated ==
    (fout # None /\ (NegligibleCondition \/ LargeSampleCondition))
        => fout[1] = "stop_test_no_winner"

\* C2 amended: the recommendation is stop_test_no_winner whenever
\* is_significant and |uplift| < 2.0, or whenever is_significant is false,
\* total_visitors >= 2 x sample_size_needed and the probability is below
\* 0.10 or above 0.90.
C2_StopUnlessWinner ==
    (fout # None
     /\ (NegligibleCondition \/ (~fin.is_significant /\ LargeSampleCondition)))
        => fout[1] = "stop_test_no_winner"

\* C2 witness: the large-sample rule stops a test that is not significant,
\* with the visitor total exactly twice the sample size.
C2_Witness ==
    /\ fout = Some("stop_test_no_winner")
    /\ ~fin.is_significant
    /\ fin.sample_size_needed > 0
    /\ fin.total_visitors = 2 * fin.sample_size_needed
    /\ fin.prob_b_beats_a > 9 * (FP \div 10)

\* C3: the recommendation is always one of the three values, and it is
\* continue_test exactly when neither the winner condition nor either of
\* the two stop conditions holds.
C3_ContinueOtherwise ==
    fout # None =>
        /\ fout[1] \in {"declare_winner", "stop_test_no_winner", "continue_test"}
        /\ fout[1] = "continue_test"
               <=> (~WinnerCondition /\ ~NegligibleCondition
                    /\ ~LargeSampleCondition)

\* C3 witness: a test continues with the sample size reached and the
\* probability exactly 0.10.
C3_Witness ==
    /\ fout = Some("continue_test")
    /\ fin.total_visitors >= 2 * fin.sample_size_needed
    /\ fin.prob_b_beats_a = FP \div 10

\* ------------------------------------------------------------------------
\* Properties of the endpoint (checked under Spec)
\* ------------------------------------------------------------------------

\* A request whose conversions exceed its visitors in either arm.
Invalid(r) ==
    \/ r.control_conversions > r.control_visitors
    \/ r.variant_conversions > r.variant_visitors

\* C4: a request with more conversions than visitors in an arm is answered
\* with a client error before any computation: no frequentist, Bayesian,
\* sample-size or recommendation step runs, no analysis is returned.
C4_InvalidRejectedFirst ==
    (req # None /\ Invalid(req[1])) =>
        /\ pc \in {"validate", "done"}
        /\ locals = None /\ frequentist = None /\ bayesian = None
        /\ sample_size = None /\ recommendation = None
        /\ pc = "validate" => response = None
        /\ pc = "done" => (response # None /\ response[1].status = 400)

\* C4 witness: a request invalid in its variant arm only has been rejected.
C4_Witness ==
    /\ pc = "done"
    /\ req # None
    /\ req[1].control_conversions <= req[1].control_visitors
    /\ req[1].variant_conversions > req[1].variant_visitors
    /\ response # None
    /\ response[1].status = 400

\* A request has been answered with a full analysis.
Analysed == pc = "done" /\ response # None /\ response[1].status = 200

\* Both arms of the request being served have zero conversions.
NoConversions ==
    req # None /\ req[1].control_conversions = 0 /\ req[1].variant_conversions = 0

\* The frequentist figures reported for an observation without conversions.
NoEvidenceReported ==
    /\ response[1].frequentist.z_score = 0
    /\ response[1].frequentist.p_value = FP
    /\ ~response[1].frequentist.is_significant

\* C6 as stated: an observation in which both arms have zero conversions
\* yields z_score = 0, p_value = 1, is_significant = false and
\* recommendation = continue_test.
C6_NoConversionsContinue ==
    (Analysed /\ NoConversions) =>
        (NoEvidenceReported /\ response[1].recommendation = "continue_test")

\* C6 amended: an observation in which both arms have zero conversions
\* yields z_score = 0, p_value = 1, is_significant = false and
\* sample_size_needed = 0; the recommendation is continue_test when
\* prob_b_beats_a lies in [0.10, 0.90], as it does whenever the two visitor
\* counts are equal (control=(0,100), variant=(0,100)), and
\* stop_test_no_winner otherwise.
C6_NoConversionsByProbability ==
    (Analysed /\ NoConversions) =>
        /\ NoEvidenceReported
        /\ response[1].sample_size_needed = 0
        /\ response[1].recommendation =
               IF locals[1].prob_b_beats_a < FP \div 10
                  \/ locals[1].prob_b_beats_a > 9 * (FP \div 10)
               THEN "stop_test_no_winner" ELSE "continue_test"
        /\ req[1].control_visitors = req[1].variant_visitors
               => response[1].recommendation = "continue_test"

\* C6 witness: control=(0,100), variant=(0,100) has been analysed.
C6_Witness ==
    /\ Analysed
    /\ NoConversions
    /\ req[1].control_visitors = 100
    /\ req[1].variant_visitors = 100
    /\ response[1].recommendation = "continue_test"

\* The FrequentistResult of the request with the labels exchanged.
SwappedResult ==
    FrequentistResult(Swapped(req[1]), FrequentistLocals(Swapped(req[1])))

\* Exchanging the labels negates z_score and leaves p_value unchanged.
SwapNegatesZ ==
    /\ SwappedResult.z_score = -frequentist[1].z_score
    /\ SwappedResult.p_value = frequentist[1].p_value

\* Exchanging the labels flips the sign of relative_uplift_pct.
SwapFlipsUplift ==
    Sgn(SwappedResult.relative_uplift_pct)
        = -Sgn(frequentist[1].relative_uplift_pct)

\* C7 as stated: for every valid pair of arms, swapping control and variant
\* negates z_score, flips the sign of relative_uplift_pct and leaves
\* p_value unchanged.
C7_SwapSymmetry ==
    frequentist # None => (SwapNegatesZ /\ SwapFlipsUplift)

\* C7 amended: for every valid pair of arms, swapping control and variant
\* negates z_score and leaves p_value unchanged; it flips the sign of
\* relative_uplift_pct unless exactly one of the arms has zero conversions
\* (the uplift is reported as 0 when the control rate is 0).
C7_SwapSymmetryWithConversions ==
    frequentist # None =>
        /\ SwapNegatesZ
        /\ (req[1].control_conversions = 0 <=> req[1].variant_conversions = 0)
               => SwapFlipsUplift

\* C7 witness: a variant ahead of a control that has conversions.
C7_Witness ==
    /\ frequentist # None
    /\ req[1].control_conversions > 0
    /\ frequentist[1].z_score > 0
    /\ frequentist[1].relative_uplift_pct > 0
    /\ SwappedResult.z_score < 0
    /\ SwappedResult.relative_uplift_pct < 0

\* C8: in every FrequentistResult, is_significant is true exactly when the
\* reported p_value is less than 1 - the reported confidence_level.
C8_SignificantIffReported ==
    frequentist # None =>
        (frequentist[1].is_significant
            <=> frequentist[1].p_value < FP - frequentist[1].confidence_level)

\* The worked example: control=(100,1000), variant=(130,1000) at 0.95.
WorkedExample == Request(<<100, 1000>>, <<130, 1000>>, 9500000)

\* C9: the worked example has pooled rate 11.5%, z about 2.10 (above the
\* 1.96 critical value, so significant at 0.05), p about 0.036, relative
\* uplift about +30.0, and the recommendation declare_winner.
C9_WorkedExample ==
    (pc = "done" /\ req = Some(WorkedExample)) =>
        /\ response # None
        /\ response[1].status = 200
        /\ IntDiv(req[1].control_conversions + req[1].variant_conversions,
                  req[1].control_visitors + req[1].variant_visitors)
               = 115 * (FP \div 1000)
        /\ Abs(response[1].frequentist.z_score - 210 * (FP \div 100))
               <= FP \div 100
        /\ response[1].frequentist.z_score > 196 * (FP \div 100)
        /\ Abs(response[1].frequentist.p_value - 36 * (FP \div 1000))
               <= FP \div 1000
        /\ response[1].frequentist.is_significant
        /\ Abs(response[1].frequentist.relative_uplift_pct - 30 * PCT)
               <= PCT \div 10
        /\ response[1].recommendation = "declare_winner"

\* C9 witness: the worked example has been analysed.
C9_Witness ==
    /\ Analysed
    /\ req = Some(WorkedExample)
    /\ response[1].recommendation = "declare_winner"

\* ------------------------------------------------------------------------
\* Properties of the z-test (checked under SpecZ)
\* ------------------------------------------------------------------------

\* C5: the z-test returns exactly (z=0, p=1), without raising, whenever a
\* visitor count is 0 or the pooled rate is 0 or 1 (no conversion in either
\* arm, or every visitor converted in both), where the standard error is 0.
C5_DegenerateIsNoEvidence ==
    (fout # None
     /\ (\/ fin.ctrl[2] = 0
         \/ fin.var[2] = 0
         \/ fin.ctrl[1] + fin.var[1] = 0
         \/ fin.ctrl[1] + fin.var[1] = fin.ctrl[2] + fin.var[2]))
        => fout[1] = [raised |-> FALSE, z |-> 0, p |-> FP]

\* C5 witness: the z-test has returned (0, 1) for a control arm without
\* visitors against a variant arm with conversions.
C5_Witness ==
    /\ fout # None
    /\ fin.ctrl[2] = 0
    /\ fin.var[1] > 0
    /\ fout[1] = [raised |-> FALSE, z |-> 0, p |-> FP]

\* ------------------------------------------------------------------------
\* Properties of the sample-size planner (checked under SpecSize)
\* ------------------------------------------------------------------------

\* The planner's p2 for the baseline in fin, at the endpoint's 10% lift.
SizeP2 == Min(FMul(fin.baseline_rate, FP + FP \div 10), FP - FP \div 10000)

\* The closed-form numerator and denominator for the arguments in fin.
SizeNumerator ==
    planner_numerator(fin.baseline_rate, FP \div 10, fin.alpha, 8 * (FP \div 10))

SizeDenominator == planner_denominator(fin.baseline_rate, FP \div 10)

NextConversionZ ==
    _z_test_proportions(fin.ctrl[1], fin.ctrl[2], fin.var[1] + 1, fin.var[2])

C11_SeededInvocationsAgree ==
    Len(fout) = 2
        => /\ fout[1].prob_b_beats_a = fout[2].prob_b_beats_a
           /\ fout[1].expected_loss = fout[2].expected_loss
           /\ fout[1].credible_interval = fout[2].credible_interval

\* C11 witness: the engine has been invoked twice on a stream whose blocks
\* differ, so that draws taken further down the stream would differ, and
\* has returned an estimate strictly between 0 and 1 both times.
C11_Witness ==
    /\ Len(fout) = 2
    /\ numpy.pcg64[0] # numpy.pcg64[1]
    /\ numpy.pcg64[0] # numpy.pcg64[2]
    /\ fout[1].prob_b_beats_a > 0
    /\ fout[1].prob_b_beats_a < FP
    /\ fout[2].prob_b_beats_a = fout[1].prob_b_beats_a

\* C14: every Bayesian result has prob_variant_beats_control in [0, 1],
\* expected_loss >= 0 and a credible interval with low <= high and both
\* bounds in [0, 1].
C14_BayesianResultInRange ==
    \A k \in 1..Len(fout) :
        /\ fout[k].prob_b_beats_a >= 0
        /\ fout[k].prob_b_beats_a <= FP
        /\ fout[k].expected_loss >= 0
        /\ 0 <= fout[k].credible_interval[1]
        /\ fout[k].credible_interval[1] <= fout[k].credible_interval[2]
        /\ fout[k].credible_interval[2] <= FP

\* C14 witness: a result in which the variant beat the control in some
\* draws and lost in others (a positive expected loss), with a credible
\* interval of positive width.
C14_Witness ==
    /\ Len(fout) >= 1
    /\ fout[1].prob_b_beats_a > 0
    /\ fout[1].prob_b_beats_a < FP
    /\ fout[1].expected_loss > 0
    /\ fout[1].credible_interval[1] < fout[1].credible_interval[2]

\* ------------------------------------------------------------------------
\* Properties of the /analyze endpoint's sampling (checked under Spec)
\* ------------------------------------------------------------------------

\* C15: every analyze request that reaches the Bayesian step draws the
\* same number of Monte Carlo samples per arm, 100,000, whatever the
\* request holds, and that number is at most 1,000,000.
C15_SampleCountFixedAndBounded ==
    bayesian # None
        => /\ locals[1].n_samples = 100000
           /\ locals[1].n_samples <= 1000000

\* C15 witness: the Bayesian step has run for the worked example, whose
\* arms have 1000 visitors each, with 100,000 samples per arm.
C15_Witness ==
    /\ bayesian # None
    /\ req[1].control_visitors = 1000
    /\ req[1].variant_visitors = 1000
    /\ locals[1].n_samples = 100000

\* C17: every request within the input constraints (at least one visitor
\* and no more conversions than visitors in each arm, confidence_level in
\* [0.5, 0.9999]) is answered with a full analysis; degenerate values never
\* surface as an error.
C17_ValidRequestsComplete ==
    (pc = "done" /\ ~Invalid(req[1]))
        => /\ response # None
           /\ response[1].status = 200

\* The request being served has visitor counts that convert to floats.
WithinFloats ==
    /\ ~FloatOverflow(req[1].control_visitors)
    /\ ~FloatOverflow(req[1].variant_visitors)

\* Every valid request with such visitor counts is answered with a full
\* analysis: the requests that end in an error are those of C17 alone.
ValidWithinFloatsComplete ==
    (pc = "done" /\ ~Invalid(req[1]) /\ WithinFloats)
        => /\ response # None
           /\ response[1].status = 200

\* ------------------------------------------------------------------------
\* Properties of concurrent requests (checked under SpecConc)
\* ------------------------------------------------------------------------

\* The sampling error of a request served alone: the generator seeded with
\* 42 read from its start.
SoloError ==
    LET rng == default_rng(42)
    IN  SamplingError(BlockDeviation(numpy.pcg64[Block(rng)]),
                      BlockDeviation(numpy.pcg64[Block(Advance(rng))]))

\* C16: however the steps of concurrent analyze requests interleave, each
\* response is the one the request gets when served alone, and no call
\* touches generator state shared with another call.
C16_ConcurrentRequestsIndependent ==
    /\ numpy.global = GlobalGenerator
    /\ \A w \in Workers :
           workers[w].pc = "done"
               => workers[w].response[1]
                      = AnalysisResponse(workers[w].req[1], SoloError)

\* C16 witness: a request has been answered in full after drawing its
\* variant samples while another call was in flight, on a stream whose
\* blocks differ.
C16_Witness ==
    /\ workers[1].pc = "done"
    /\ workers[1].overlapped
    /\ workers[1].response[1].status = 200
    /\ workers[2].pc = "draw_var"
    /\ workers[2].req # workers[1].req
    /\ numpy.pcg64[0] # numpy.pcg64[1]
    /\ numpy.pcg64[1] # numpy.pcg64[2]

\* ------------------------------------------------------------------------
\* Properties of the attribution weights (checked under SpecAttr)
\* ------------------------------------------------------------------------

\* The weights _calculate_weights returned.
Weights == fout[1]

\* The weights are one per touch and none is negative.
OnePerTouchNonNegative ==
    /\ Len(Weights) = Len(fin.tps)
    /\ \A i \in 1..Len(Weights) : Weights[i] >= 0

C19_ChangeOverClampedPrior ==
    fout # None =>
        /\ fout[1].traffic_change_pct
               = PyRound(MulDiv(fin.pageviews_last_30d - fin.pageviews_prior_30d,
                                100 * PCT, Max(fin.pageviews_prior_30d, 1)),
                         PCT \div 100)
        /\ fout[1].lead_change_pct
               = PyRound(MulDiv(fin.leads_last_30d - fin.leads_prior_30d,
                                100 * PCT, Max(fin.leads_prior_30d, 1)),
                         PCT \div 100)

\* C20: the asset's status is healthy iff both of its changes, each
\* (last - prior) / max(prior, 1) * 100, are >= -10%, critical_decay iff
\* either is < -50%, and otherwise slight_decay when the worse change is
\* in [-30%, -10%) and significant_decay when it is in [-50%, -30%).
C20_StatusByWorseChange ==
    fout # None =>
        LET traffic == MulDiv(fin.pageviews_last_30d - fin.pageviews_prior_30d,
                              100 * PCT, Max(fin.pageviews_prior_30d, 1))
            lead    == MulDiv(fin.leads_last_30d - fin.leads_prior_30d,
                              100 * PCT, Max(fin.leads_prior_30d, 1))
            worse   == Min(traffic, lead)
            status  == fout[1].decay_status
        IN  /\ status \in {"healthy", "slight_decay", "significant_decay", "critical_decay"}
            /\ status = "healthy" <=> worse >= -10 * PCT
            /\ status = "critical_decay" <=> worse < -50 * PCT
            /\ status = "slight_decay" <=> (worse >= -30 * PCT /\ worse < -10 * PCT)
            /\ status = "significant_decay" <=> (worse >= -50 * PCT /\ worse < -30 * PCT)

\* ------------------------------------------------------------------------
\* Properties of the paid-unlock timeline (checked under SpecUnlock)
\* ------------------------------------------------------------------------

\* current_mrr plus the new MRR of months 1..m.
CumulativeMRR(r, m) == r.current_mrr + SeqSum([t \in 1..m |-> new_mrr(r, t)])

\* The months of 1..Horizon whose cumulative MRR reaches the target.
ReachingMonths(r) ==
    LET cumulative == [m \in 1..Horizon |-> CumulativeMRR(r, m)]
    IN  {m \in 1..Horizon : cumulative[m] >= r.target_mrr}

\* The smallest element of a non-empty set of months.
Smallest(S) == CHOOSE m \in S : \A k \in S : m <= k

\* C21: months_to_target of the response is the smallest month of 1..60
\* whose cumulative projected MRR is >= target_mrr, and None exactly when
\* no month reaches the target; once set, no later month overwrites it.
C21_FirstMonthAtTarget ==
    /\ [](timeline # None /\ timeline.pc = "done" =>
            LET reaching == ReachingMonths(timeline.req)
            IN  timeline.response[1].months_to_target
                    = IF reaching = {} THEN None ELSE Some(Smallest(reaching)))
    /\ [][timeline.months_to_target # None
            => timeline'.months_to_target = timeline.months_to_target]_vars

\* C21 witness: the target was reached in a month after the first, the
\* MRR fell below the target again in a later month, and the response
\* names the first month.
C21_Witness ==
    /\ timeline # None
    /\ timeline.pc = "done"
    /\ timeline.response[1].months_to_target # None
    /\ timeline.response[1].months_to_target[1] > 1
    /\ \E m \in 1..Horizon :
           /\ m > timeline.response[1].months_to_target[1]
           /\ CumulativeMRR(timeline.req, m) < timeline.req.target_mrr

\* The labels of the four milestones, lowest first.
MilestoneOrder ==
    <<"25% of target MRR", "50% of target MRR", "75% of target MRR", "100% - target MRR">>

\* C30: milestone_breakdown lists each of the four milestones at most
\* once, in the order 25%, 50%, 75%, 100% with non-decreasing months, none
\* before all lower ones; the 100% milestone is there exactly when
\* months_to_target is not None, and with the same month.
C30_MilestonesInOrder ==
    timeline # None =>
        LET breakdown == timeline.milestone_breakdown
        IN  /\ Len(breakdown) <= Len(MilestoneOrder)
            /\ \A i \in 1..Len(breakdown) : breakdown[i].label = MilestoneOrder[i]
            /\ \A i \in 1..Len(breakdown) : \A j \in i..Len(breakdown) :
                   breakdown[i].month <= breakdown[j].month
            /\ Len(breakdown) = Len(MilestoneOrder) <=> timeline.months_to_target # None
            /\ timeline.months_to_target # None
                   => breakdown[Len(MilestoneOrder)].month = timeline.months_to_target[1]
            /\ timeline.pc = "done"
                   => /\ timeline.response[1].milestone_breakdown = breakdown
                      /\ timeline.response[1].months_to_target = timeline.months_to_target

\* C30 witness: a response with all four milestones, two of them in the
\* same month and the last in a later month than the first.
C30_Witness ==
    /\ timeline # None
    /\ timeline.pc = "done"
    /\ Len(timeline.response[1].milestone_breakdown) = 4
    /\ timeline.response[1].milestone_breakdown[1].month
           = timeline.response[1].milestone_breakdown[2].month
    /\ timeline.response[1].milestone_breakdown[1].month
           < timeline.response[1].milestone_breakdown[4].month
    /\ timeline.response[1].months_to_target
           = Some(timeline.response[1].milestone_breakdown[4].month)

\* ------------------------------------------------------------------------
\* Properties of lead scoring (checked under SpecScore)
\* ------------------------------------------------------------------------

\* C22: the segment and action of a scored lead are hot and
\* immediate_outreach iff its composite is > 80, warm and nurture_sequence
\* iff it is in [60, 80], cool and educational_content iff it is in
\* [40, 60), cold and disqualify iff it is < 40; the composite is in
\* [0, 100].
C22_SegmentByThresholds ==
    fout # None =>
        LET composite == composite_score(fin)
            routed(segment, action) ==
                fout[1].segment = segment /\ fout[1].recommended_action = action
        IN  /\ 0 <= composite /\ composite <= 100 * PCT
            /\ 0 <= fout[1].composite_score /\ fout[1].composite_score <= 100 * PCT
            /\ routed("hot", "immediate_outreach") <=> composite > 80 * PCT
            /\ routed("warm", "nurture_sequence")
                   <=> (60 * PCT <= composite /\ composite <= 80 * PCT)
            /\ routed("cool", "educational_content")
                   <=> (40 * PCT <= composite /\ composite < 60 * PCT)
            /\ routed("cold", "disqualify") <=> composite < 40 * PCT

\* C22 witness: a lead whose composite is exactly 80 has been scored
\* warm.
C22_Witness ==
    /\ fout # None
    /\ composite_score(fin) = 80 * PCT
    /\ fout[1].segment = "warm"
    /\ fout[1].recommended_action = "nurture_sequence"

\* ------------------------------------------------------------------------
\* Properties of the z-test on unvalidated counts (checked under SpecZAny)
\* ------------------------------------------------------------------------

\* C23: the p_value _z_test_proportions returns is within [0, 1] for
\* every input.
C23_PValueInUnitInterval ==
    (fout # None /\ ~fout[1].raised) => (0 <= fout[1].p /\ fout[1].p <= FP)

\* C23 witness: the test has returned a p_value strictly between 0 and 1
\* with a negative z, for arms of which one has more conversions than
\* visitors.
C23_Witness ==
    /\ fout # None
    /\ ~fout[1].raised
    /\ fout[1].z < 0
    /\ 0 < fout[1].p /\ fout[1].p < FP
    /\ fin.ctrl[1] > fin.ctrl[2]

\* ------------------------------------------------------------------------
\* Properties of the uplift figures (checked under Spec)
\* ------------------------------------------------------------------------

\* (p_var - p_ctrl) * n_ctrl * n_var for the counts of the request: the
\* difference of the rates as an exact integer.
RateDifferenceCross ==
    req[1].variant_conversions * req[1].control_visitors
        - req[1].control_conversions * req[1].variant_visitors

\* C24: the reported relative_uplift_pct is (p_var - p_ctrl) / p_ctrl * 100
\* when the control rate is positive and 0 when it is 0, and the reported
\* absolute_uplift_pct is (p_var - p_ctrl) * 100 in every case; both to
\* the fourth decimal place.
C24_UpliftFigures ==
    Analysed =>
        /\ req[1].control_conversions > 0 =>
               Abs(response[1].frequentist.relative_uplift_pct
                   - MulDiv(RateDifferenceCross, 100 * PCT,
                            req[1].control_conversions * req[1].variant_visitors)) <= 1
        /\ req[1].control_conversions = 0 =>
               response[1].frequentist.relative_uplift_pct = 0
        /\ Abs(response[1].frequentist.absolute_uplift_pct
               - MulDiv(RateDifferenceCross, 100 * PCT,
                        req[1].control_visitors * req[1].variant_visitors)) <= 1

\* C24 witness: a request whose control arm has conversions and whose
\* variant arm has fewer per visitor has been analysed, with a relative
\* uplift more negative than the absolute one.
C24_Witness ==
    /\ Analysed
    /\ req[1].control_conversions > 0
    /\ response[1].frequentist.absolute_uplift_pct < 0
    /\ response[1].frequentist.relative_uplift_pct
           < response[1].frequentist.absolute_uplift_pct

\* ------------------------------------------------------------------------
\* Properties of the inverse normal CDF (checked under SpecPpf)
\* ------------------------------------------------------------------------

\* C25: _norm_ppf returns -inf for every p <= 0 and +inf for every
\* p >= 1, and the arguments the planner passes for an accepted
\* confidence_level are strictly inside (0,1), where the result is finite.
C25_PpfInfiniteOutsideUnitInterval ==
    /\ fout # None =>
           /\ fin.p <= 0 => fout[1] = NegInf
           /\ fin.p >= FP => fout[1] = PosInf
           /\ (0 < fin.p /\ fin.p < FP) => ~IsInf(fout[1])
    /\ fin.caller = "planner" => (0 < fin.p /\ fin.p < FP)

\* C25 witness: _norm_ppf has been called with exactly 1.0 and has
\* returned +inf.
C25_Witness ==
    /\ fout # None
    /\ fin.p = FP
    /\ fin.caller = "direct"
    /\ fout[1] = PosInf

\* ------------------------------------------------------------------------
\* Properties of the decay-detection response (checked under SpecDetect)
\* ------------------------------------------------------------------------

\* C26: the response holds exactly one result per asset of the request,
\* in order of non-increasing priority_score, and every priority_score is
\* in [0, 100].
C26_OneResultPerAssetByPriority ==
    fout # None =>
        LET assets == fout[1].assets
        IN  /\ Len(assets) = Len(fin)
            /\ \A i \in 1..Len(fin) :
                   Cardinality({j \in 1..Len(assets) : assets[j].id = fin[i].id}) = 1
            /\ \A j \in 1..Len(assets) :
                   /\ assets[j].priority_score
                          = _analyze_asset_decay(fin[assets[j].id]).priority_score
                   /\ 0 <= assets[j].priority_score
                   /\ assets[j].priority_score <= 100 * PCT
            /\ \A j \in 1..(Len(assets) - 1) :
                   assets[j].priority_score >= assets[j + 1].priority_score

\* C26 witness: a response of three results in which the asset sent last
\* comes first, with the full score of 100, and the asset sent first comes
\* last.
C26_Witness ==
    /\ fout # None
    /\ Len(fin) = 3
    /\ fout[1].assets[1].id = 3
    /\ fout[1].assets[1].priority_score = 100 * PCT
    /\ fout[1].assets[3].id = 1
    /\ fout[1].assets[2].priority_score > fout[1].assets[3].priority_score

\* ------------------------------------------------------------------------
\* Properties of the recommendation at the ends of the control rate
\* (checked under Spec)
\* ------------------------------------------------------------------------

\* C27: when control_conversions = 0 the analysis never recommends
\* declare_winner, whatever the variant's counts and the confidence level:
\* the relative uplift is 0, and a significant result is reported as
\* stop_test_no_winner.
C27_NoWinnerWithoutControlConversions ==
    (Analysed /\ req[1].control_conversions = 0) =>
        /\ response[1].recommendation # "declare_winner"
        /\ locals[1].relative_uplift_pct = 0
        /\ response[1].frequentist.relative_uplift_pct = 0
        /\ response[1].frequentist.is_significant
               => response[1].recommendation = "stop_test_no_winner"

\* C27 witness: control=(0,3), variant=(3,3) at confidence 0.95 has been
\* analysed as significant and answered with stop_test_no_winner.
C27_Witness ==
    /\ Analysed
    /\ req[1].control_conversions = 0
    /\ req[1].control_visitors = 3
    /\ req[1].variant_conversions = 3
    /\ req[1].variant_visitors = 3
    /\ req[1].confidence_level = 9500000
    /\ response[1].frequentist.is_significant
    /\ response[1].recommendation = "stop_test_no_winner"

\* The control rate of the request being served is 0 or 1.
ControlRateAtAnEnd ==
    req # None
    /\ (req[1].control_conversions = 0
        \/ req[1].control_conversions = req[1].control_visitors)

\* C28: when the control rate is 0 or 1 the planner returns
\* sample_size_needed = 0, so total_visitors >= 2 * sample_size_needed
\* holds whatever total_visitors is, and a non-significant request is
\* answered stop_test_no_winner exactly when prob_b_beats_a < 0.10 or
\* prob_b_beats_a > 0.90, and continue_test otherwise.
C28_EndRatesDecideByProbability ==
    (Analysed /\ ControlRateAtAnEnd) =>
        /\ response[1].sample_size_needed = 0
        /\ req[1].control_visitors + req[1].variant_visitors
               >= 2 * response[1].sample_size_needed
        /\ ~locals[1].is_significant =>
               /\ response[1].recommendation = "stop_test_no_winner"
                      <=> (locals[1].prob_b_beats_a < ProbLow
                           \/ locals[1].prob_b_beats_a > ProbHigh)
               /\ response[1].recommendation
                      \in {"stop_test_no_winner", "continue_test"}

\* C28 witness: control=(1,1), variant=(0,3), four visitors in all and a
\* control rate of 1, has been analysed as not significant and answered
\* stop_test_no_winner on a probability below 0.10.
C28_Witness ==
    /\ Analysed
    /\ req[1].control_conversions = 1
    /\ req[1].control_visitors = 1
    /\ req[1].variant_conversions = 0
    /\ req[1].variant_visitors = 3
    /\ ~locals[1].is_significant
    /\ locals[1].prob_b_beats_a < ProbLow
    /\ response[1].sample_size_needed = 0
    /\ response[1].recommendation = "stop_test_no_winner"

\* ------------------------------------------------------------------------
\* Priority of the significance rules (checked under SpecRec)
\* ------------------------------------------------------------------------

\* The visitor totals, sample sizes and probabilities of RecInputs.
RecTotals == {i.total_visitors : i \in RecInputs}

RecSampleSizes == {i.sample_size_needed : i \in RecInputs}

RecProbabilities == {i.prob_b_beats_a : i \in RecInputs}

\* The significant calls whose uplift has the magnitude of r's.
SignificantWithSameMagnitude(r) ==
    [is_significant      : {TRUE},
     relative_uplift_pct : {r.relative_uplift_pct, -r.relative_uplift_pct},
     total_visitors      : RecTotals,
     sample_size_needed  : RecSampleSizes,
     prob_b_beats_a      : RecProbabilities]

\* C29: the significance rules come before the Bayesian rule. When
\* is_significant is true the recommendation is a function of
\* |relative_uplift_pct| alone (declare_winner from 2.0 on,
\* stop_test_no_winner below): it is the same for every other
\* total_visitors, sample_size_needed and prob_b_beats_a.
C29_SignificanceBeforeBayes ==
    (fout # None /\ fin.is_significant) =>
        /\ fout[1] = IF Abs(fin.relative_uplift_pct) >= MinUpliftPct
                     THEN "declare_winner" ELSE "stop_test_no_winner"
        /\ \A other \in SignificantWithSameMagnitude(fin) :
               _make_recommendation(other.is_significant, other.relative_uplift_pct,
                                    other.total_visitors, other.sample_size_needed,
                                    other.prob_b_beats_a) = fout[1]

\* C29 witness: a significant uplift of 30% is declared the winner although
\* the sample is reached and the probability, 1.0, is above 0.90, where the
\* Bayesian rule alone would answer stop_test_no_winner.
C29_Witness ==
    /\ fout # None
    /\ fin.is_significant
    /\ fin.relative_uplift_pct = 30 * PCT
    /\ fin.total_visitors = 200
    /\ fin.sample_size_needed = 100
    /\ fin.prob_b_beats_a = FP
    /\ fout[1] = "declare_winner"

====
